---- MODULE Spec2Model ----
(***************************************************************************)
(* Conversation orchestrator of the CLI (GeminiClient) together with the   *)
(* Claude adapter (ClaudeContentGenerator).                                *)
(* Spec, SpecAdversarial, SpecArgs: one session of the Claude provider,    *)
(* initialize and sendMessageStream calls driven by a backend stream and a *)
(* tool registry that answer nondeterministically.                         *)
(* SpecGemini: one session of the Gemini provider, sendMessageStream with  *)
(* its pre-turn tryCompressChat, and handleFlashFallback.                  *)
(* SpecConvert: convertToClaudeRequest applied to a transcript.            *)
(* SpecRateLimit: Spec with a backend that may refuse a stream with a      *)
(* rate-limit error.  SpecToolThenText: a backend that answers with one    *)
(* tool call and then with text.  SpecCount, SpecEmbed: countTokens and    *)
(* the embedding calls on the Claude provider.                             *)
(* SpecStartup: main of the CLI choosing provider and auth type from the   *)
(* --provider flag, the settings file, AI_PROVIDER and the API keys.       *)
(* SpecLog: the API logger built from GEMINI_LOG_LEVEL and the calls made  *)
(* on it.  SpecMap: mapModelName of the two adapter sources applied to a   *)
(* request's model.  SpecNonInteractive, SpecNonInteractiveFair: the loop  *)
(* of runGeminiNonInteractive.  SpecTurnLoop: the recursion of the Gemini  *)
(* sendMessageStream on its turns argument.  SpecChat: ClaudeChat's        *)
(* sendMessage and sendMessageStream.                                      *)
(***************************************************************************)
EXTENDS Integers, Sequences, FiniteSets, TLC

(* ---------------------------- bounds ----------------------------------- *)
\* sendMessageStream calls made on one session
MaxCalls == 2
\* texts in one list handed to generateEmbedding
MaxTexts == 3
\* raw chunks an unconstrained backend streams in one session, all streams together
MaxStreamed == 2

\* recursive continuations of one Gemini sendMessageStream call
MaxContinue == 1
\* calls made on the API logger
MaxLogCalls == 2
\* mapModelName applications followed on one model name
MaxMappings == 3
\* function calls one response of the Gemini backend asks for
MaxFunctionCalls == 2
\* turns followed in one Gemini sendMessageStream call and its continuations
MaxTurnsRun == 101

(* ------------------------ program constants ---------------------------- *)
\* let maxTurns = 10  (inner tool-loop ceiling of one Claude call)
CLAUDE_MAX_TURNS == 10
\* private readonly MAX_TURNS = 100
MAX_TURNS == 100
\* TOKEN_THRESHOLD_FOR_SUMMARIZATION = 0.7, as a fraction
THRESHOLD_NUM == 7
THRESHOLD_DEN == 10
\* Math.ceil(content.length / 4)
CHARS_PER_TOKEN == 4

(* ----------------------------- values ---------------------------------- *)
\* texts are sequences of characters; "" is the empty sequence
EmptyText == << >>
EnvText == [k \in 1..18 |-> "e"]
AckText == <<"a", "c", "k">>
\* 'Got it. Thanks for the additional context!'
AddAckText == <<"a", "d", "d">>
\* 'Please continue.'
ContinueText == <<"g", "o">>
\* what the summarization call may return as the state snapshot
Summaries == {<<"s">>, <<"s", "n", "a", "p", "s">>}
PlaceholderText == <<"A">>
UserTexts == {<<"h", "i">>}
DeltaTexts == {<<"o", "k">>, EmptyText}
\* tool arguments are sequences of keys; {} is the empty sequence
EmptyArgs == << >>

\* tools the registry holds
Registry == {"ls"}
\* the id the backend attaches to the tool_use block that follows k collected
\* calls of the same stream
BackendId(k) == IF k % 2 = 0 THEN "t1" ELSE "t2"
\* the tool_use blocks the backend may send there: a registered tool, a tool the
\* registry does not hold, a block without id ("" stands for the missing id)
BackendToolUses(k) ==
  {[name |-> "ls", id |-> BackendId(k), input |-> EmptyArgs],
   [name |-> "rm", id |-> BackendId(k), input |-> EmptyArgs],
   [name |-> "ls", id |-> "", input |-> EmptyArgs]}
\* the tool_use blocks of a backend that streams arguments: the input of the
\* start chunk is {} or already holds a key
ArgsToolUses(k) ==
  {[name |-> "ls", id |-> BackendId(k), input |-> EmptyArgs],
   [name |-> "ls", id |-> BackendId(k), input |-> <<"q">>]}
\* partial_json of the input_json_delta chunks that follow a tool_use start
ArgsDeltas == {<<"p">>}
\* values of `${name}-${Date.now()}-${Math.random()...}`, and the value
\* generated for the call that follows k collected calls of the same stream
GeneratedIds == {"g1", "g2"}
GeneratedId(k) == IF k % 2 = 0 THEN "g1" ELSE "g2"

Null == [role |-> "null", parts |-> << >>]

TextPart(t) == [kind |-> "text", text |-> t, name |-> "", id |-> "", err |-> FALSE]
FunctionCallPart(n, i) ==
  [kind |-> "functionCall", text |-> EmptyText, name |-> n, id |-> i, err |-> FALSE]
\* id holds toolUseId; err tells response.error from response.result
FunctionResponsePart(n, i, e) ==
  [kind |-> "functionResponse", text |-> EmptyText, name |-> n, id |-> i, err |-> e]

Content(r, ps) == [role |-> r, parts |-> ps]

\* model names of the configuration
DEFAULT_GEMINI_MODEL == "gemini-2.5-pro"
DEFAULT_GEMINI_FLASH_MODEL == "gemini-2.5-flash"
DEFAULT_CLAUDE_MODEL == "claude-3-sonnet-20240229"

\* AuthType.LOGIN_WITH_GOOGLE, an API-key auth type, and "" for an absent argument
LOGIN_WITH_GOOGLE == "oauth-personal"
USE_GEMINI == "gemini-api-key"
USE_CLAUDE == "claude-api-key"
AuthTypes == {LOGIN_WITH_GOOGLE, USE_GEMINI, ""}
\* config.flashFallbackHandler: not a function, or a function that approves,
\* declines or throws
FallbackHandlers == {"none", "accept", "decline", "throw"}
\* what handleFlashFallback was called with, found and returned ("" is null)
NoFallback == [authType |-> "", handler |-> "", before |-> "", result |-> ""]

\* how an embedding call ended: it returned vectors, or threw thrown
Embedding(op, texts, initialized, returned, vectors, thrown) ==
  [op |-> op, texts |-> texts, initialized |-> initialized, returned |-> returned,
   vectors |-> vectors, thrown |-> thrown]
NoEmbedding == Embedding("", << >>, FALSE, FALSE, << >>, "")

\* one start of the CLI: what it was given (the --provider flag, the provider
\* and selectedAuthType of the settings file, AI_PROVIDER, which API keys are
\* set, "" for an absent value), how far main has come, and what it decided
\* (provider and authType of the Config, the auth type handed to refreshAuth)
Startup(stage, flag, settingsProvider, aiProvider, selectedAuthType, claudeKey, geminiKey, configProvider, authType, refreshed, error) ==
  [stage |-> stage, flag |-> flag, settingsProvider |-> settingsProvider,
   AI_PROVIDER |-> aiProvider, selectedAuthType |-> selectedAuthType,
   CLAUDE_API_KEY |-> claudeKey, GEMINI_API_KEY |-> geminiKey,
   configProvider |-> configProvider, authType |-> authType,
   refreshed |-> refreshed, error |-> error]
\* no start of the CLI is being followed
NoStartup == Startup("none", "", "", "", "", FALSE, FALSE, "", "", "", "")

\* a model name as the prefix that startsWith('claude-') looks at and the rest
ModelName(prefix, rest) == [prefix |-> prefix, rest |-> rest]
\* request.model is undefined
NoModelName == ModelName("", "")
\* one adapter (the file of ClaudeContentGenerator it comes from), the model
\* of a request, and the names successive mapModelName calls returned
Mapping(variant, requestModel, names) ==
  [variant |-> variant, model |-> requestModel, names |-> names]
NoMapping == Mapping("", NoModelName, << >>)

\* runGeminiNonInteractive at one point: where it stands ("send", "stream",
\* "tools", and "returned", "cancelled", "failed", "exited" once it is over),
\* signal.aborted, its locals currentMessages (the parts of its one message),
\* functionCalls, toolResponseParts and the position of the for loop, the
\* exit code of the process, and of the response being handled: the call ids
\* and outcomes of the tool calls dispatched, the milliseconds Date.now() has
\* advanced, whether its results became currentMessages
RunGemini(pc0, messages, functionCalls, idx) ==
  [pc |-> pc0, aborted |-> FALSE, currentMessages |-> messages,
   functionCalls |-> functionCalls, idx |-> idx, toolResponseParts |-> << >>,
   exitCode |-> 0, callIds |-> << >>, outcomes |-> << >>, now |-> 0,
   assigned |-> FALSE]
\* no non-interactive run is being followed
NotRunning == RunGemini("none", << >>, << >>, 0)

\* one sendMessageStream call of the Gemini provider with its recursive
\* continuations: where the innermost invocation stands, its turns argument,
\* its boundedTurns, and the turns run since the outermost one began
TurnLoop(pc0, turns, boundedTurns0, turnsRun) ==
  [pc |-> pc0, turns |-> turns, boundedTurns |-> boundedTurns0, turnsRun |-> turnsRun]
NoTurnLoop == TurnLoop("none", 0, 0, 0)

\* one ClaudeChat with the call made on it: via is the method called, reply the
\* responses the content generator gives, streamed how many of them the
\* wrapped stream has yielded, modelResponse the local of sendMessageStream
ClaudeChat(pc0, history, via, message, reply, streamed, modelResponse) ==
  [pc |-> pc0, history |-> history, via |-> via, message |-> message, reply |-> reply,
   streamed |-> streamed, modelResponse |-> modelResponse, before |-> history]
NoClaudeChat == ClaudeChat("none", << >>, "", EmptyText, << >>, 0, Null)

\* LogLevel
NONE == 0
ERROR == 1
BASIC == 2
DETAILED == 3
VERBOSE == 4

\* apiLogger for one value of GEMINI_LOG_LEVEL ("" when it is unset): the
\* level its constructor chose, the lines written so far, the log calls made
ApiLogger(env, logLevel, lines, logCalls) ==
  [env |-> env, logLevel |-> logLevel, lines |-> lines, logCalls |-> logCalls]
\* the logger of a session whose logging is not followed
NoLogger == ApiLogger("NONE", NONE, << >>, 0)

\* ChatCompressionInfo | null
NoCompression == [some |-> FALSE, originalTokenCount |-> 0, newTokenCount |-> 0]
ChatCompressionInfo(o, n) == [some |-> TRUE, originalTokenCount |-> o, newTokenCount |-> n]
\* totalTokens === undefined
UndefinedCount == -1

\* an event of the caller-visible stream; message is error.message of an Error
\* event or of the error a ToolCallResponse carries, args the value.args of a
\* ToolCallRequest
Event(t, i, x, m) ==
  [type |-> t, callId |-> i, text |-> x, message |-> m, args |-> EmptyArgs,
   info |-> NoCompression]

VARIABLES
  contentGenerator,     \* TRUE once initialize() has created the generator
  claudeHistory,        \* GeminiClient.claudeHistory
  pc,                   \* position inside sendClaudeMessageStream, "idle" outside
  aborted,              \* signal.aborted of the running call
  continueConversation, \* local of sendClaudeMessageStream
  maxTurns,             \* local of sendClaudeMessageStream
  fullResponseText,     \* local of one iteration
  modelResponse,        \* local of one iteration
  toolCalls,            \* local of one iteration
  toolIdx,              \* position of the for loop over toolCalls
  toolResponseParts,    \* local of one iteration
  events,               \* events yielded to the caller by the current/last call
  lastRequest,          \* messages of the last request handed to the backend
  calls,                \* sendMessageStream calls started on this session
  backend,              \* how the backend answers: "any", "adversarial", "args", "toolThenText"
  streamed,             \* raw chunks an unconstrained backend has streamed so far
  backendCalls,         \* generateContentStream calls of the current/last call
  dispatched,           \* tool.execute calls of the current/last call: id, signal state
  rounds,               \* iterations of the current/last call that dispatched tools
  observed,             \* the abort check of the current/last call found the signal set
  atObserved,           \* <<backendCalls, Len(dispatched)>> when that happened
  atStream,             \* <<Len(dispatched), Len(events)>> when the current stream was opened
  sentArgs,             \* per collected call of the current stream: the arguments the backend sent
  provider,             \* config.getProvider()
  model,                \* config.getModel()
  hasChat,              \* this.chat is defined
  chat,                 \* history of this.chat (GeminiChat)
  boundedTurns,         \* local of the running sendMessageStream invocation
  continuations,        \* recursive sendMessageStream invocations of the current/last call
  force,                \* argument of the running tryCompressChat
  origin,               \* who awaits tryCompressChat: "turn" (sendMessageStream) or "direct"
  originalTokenCount,   \* local of tryCompressChat
  compressed,           \* what the last tryCompressChat returned
  countTokensCalls,     \* countTokens calls of the current/last call
  summarizeCalls,       \* summarization (sendMessage) calls of the current/last call
  replaced,             \* the current/last call replaced this.chat by a compressed one
  thrown,               \* message of the error the current/last call threw to its caller
  summarized,           \* sizes <<history, snapshot>> of the last summarization, in characters
  fallback,             \* arguments, model before and result of the last handleFlashFallback
  cvContents,           \* request.contents handed to convertToClaudeRequest
  cvFirst,              \* messages of a first conversion of cvContents
  cvSecond,             \* messages of a second conversion of cvContents
  cvTokens,             \* totalTokens countTokens returned for cvContents
  embedded,             \* the last embedding call: its texts and how it ended
  startup,              \* the start of the CLI: its inputs, its stage and its decisions
  logger,               \* apiLogger: GEMINI_LOG_LEVEL, its logLevel and the lines it wrote
  mapped,               \* a request's model and what mapModelName made of it, applied repeatedly
  nonInteractive,       \* runGeminiNonInteractive: its position, its locals, the process
  turnLoop,             \* the recursion of the Gemini sendMessageStream on its turns argument
  claudeChat            \* a ClaudeChat object and the call made on it

iterVars == <<fullResponseText, modelResponse, toolCalls, toolIdx,
              toolResponseParts>>
ghostVars == <<backendCalls, dispatched, rounds, observed, atObserved, atStream, sentArgs>>
\* state of the Claude path of sendMessageStream
claudeVars == <<claudeHistory, continueConversation, maxTurns, iterVars, lastRequest,
                backend, streamed, ghostVars>>
configVars == <<provider, model>>
chatVars == <<hasChat, chat>>
\* state of tryCompressChat and of the Gemini path of sendMessageStream
compressVars == <<boundedTurns, continuations, force, origin, originalTokenCount,
                  compressed, countTokensCalls, summarizeCalls, replaced, thrown,
                  summarized>>
convertVars == <<cvContents, cvFirst, cvSecond, cvTokens, embedded>>
\* state of the components that are followed on their own
standaloneVars == <<logger, mapped, nonInteractive, turnLoop, claudeChat>>
\* what the Claude path of sendMessageStream neither reads nor writes
geminiVars == <<configVars, chatVars, compressVars, fallback, convertVars, startup,
                standaloneVars>>

vars == <<contentGenerator, pc, aborted, events, calls, claudeVars, geminiVars>>
\* everything but the components that are followed on their own
sessionVars == <<contentGenerator, pc, aborted, events, calls, claudeVars, configVars,
                 chatVars, compressVars, fallback, convertVars, startup>>

\* the components followed on their own, at rest
InitStandalone ==
  /\ logger = NoLogger
  /\ mapped = NoMapping
  /\ nonInteractive = NotRunning
  /\ turnLoop = NoTurnLoop
  /\ claudeChat = NoClaudeChat

InitSession ==
  /\ contentGenerator = FALSE
  /\ claudeHistory = << >>
  /\ pc = "idle"
  /\ aborted = FALSE
  /\ continueConversation = FALSE
  /\ maxTurns = CLAUDE_MAX_TURNS
  /\ fullResponseText = EmptyText
  /\ modelResponse = Null
  /\ toolCalls = << >>
  /\ toolIdx = 0
  /\ toolResponseParts = << >>
  /\ events = << >>
  /\ lastRequest = << >>
  /\ calls = 0
  /\ streamed = 0
  /\ backendCalls = 0
  /\ dispatched = << >>
  /\ rounds = 0
  /\ observed = FALSE
  /\ atObserved = <<0, 0>>
  /\ atStream = <<0, 0>>
  /\ sentArgs = << >>
  /\ hasChat = FALSE
  /\ chat = << >>
  /\ boundedTurns = 0
  /\ continuations = 0
  /\ force = FALSE
  /\ origin = "direct"
  /\ originalTokenCount = 0
  /\ compressed = NoCompression
  /\ countTokensCalls = 0
  /\ summarizeCalls = 0
  /\ replaced = FALSE
  /\ thrown = ""
  /\ summarized = <<0, 0>>
  /\ fallback = NoFallback
  /\ cvFirst = << >>
  /\ cvSecond = << >>
  /\ cvTokens = UndefinedCount
  /\ embedded = NoEmbedding

\* a session of the Claude provider
InitClaude ==
  /\ InitSession
  /\ provider = "claude"
  /\ model = DEFAULT_CLAUDE_MODEL
  /\ cvContents = << >>
  /\ startup = NoStartup
  /\ InitStandalone

\* the session after construction, served by an unconstrained backend
Init == InitClaude /\ backend = "any"

\* the same session served by a backend that asks for one tool in every response
InitAdversarial == InitClaude /\ backend = "adversarial"

\* the same session served by a backend that streams the arguments of its tool calls
InitArgs == InitClaude /\ backend = "args"

\* the same session served by a backend that answers every input with one
\* tool call and, given the result, with text
InitToolThenText == InitClaude /\ backend = "toolThenText"

\* a session of the Gemini provider, configured with either Gemini model
InitGemini ==
  /\ InitSession
  /\ provider = "gemini"
  /\ model \in {DEFAULT_GEMINI_MODEL, DEFAULT_GEMINI_FLASH_MODEL}
  /\ cvContents = << >>
  /\ backend = "any"
  /\ startup = NoStartup
  /\ InitStandalone


(* ----------------------- adapter: request building --------------------- *)
\* one Gemini part as the Claude content blocks it becomes; gen stands for
\* the value `call_${Date.now()}_${Math.random()...}` takes for this part
ConvertPart(part, gen) ==
  IF part.kind = "text" /\ part.text # EmptyText
    THEN <<[type |-> "text", id |-> "", name |-> "", text |-> part.text]>>
  ELSE IF part.kind = "functionCall" /\ part.name # ""
    THEN <<[type |-> "tool_use", id |-> (IF part.id # "" THEN part.id ELSE gen),
            name |-> part.name, text |-> EmptyText]>>
  ELSE IF part.kind = "functionResponse"
    THEN <<[type |-> "tool_result", id |-> (IF part.id # "" THEN part.id ELSE gen),
            name |-> "", text |-> EmptyText]>>
  ELSE << >>

\* gens holds the generated value of every part of the message
RECURSIVE ConvertParts(_, _)
ConvertParts(parts, gens) ==
  IF parts = << >> THEN << >>
  ELSE ConvertPart(Head(parts), Head(gens)) \o ConvertParts(Tail(parts), Tail(gens))

\* the messages array of convertToClaudeRequest: a message whose content is
\* empty is left out, nothing is merged; gens holds the generated values of
\* every message
RECURSIVE ConvertToClaudeRequest(_, _)
ConvertToClaudeRequest(contents, gens) ==
  IF contents = << >> THEN << >>
  ELSE LET content == Head(contents)
           messageContent == ConvertParts(content.parts, Head(gens))
           rest == ConvertToClaudeRequest(Tail(contents), Tail(gens))
       IN IF content.role \in {"user", "model"} /\ messageContent # << >>
            THEN <<[role |-> (IF content.role = "model" THEN "assistant" ELSE "user"),
                    content |-> messageContent]>> \o rest
            ELSE rest

\* the part reaches a template `call_${Date.now()}_${Math.random()...}`
NeedsGeneratedId(part) ==
  \/ part.kind = "functionCall" /\ part.name # "" /\ part.id = ""
  \/ part.kind = "functionResponse" /\ part.id = ""

\* the values the templates of one message may take in one conversion
RECURSIVE PartGenerators(_)
PartGenerators(parts) ==
  IF parts = << >> THEN {<< >>}
  ELSE {<<gen>> \o rest :
          gen \in (IF NeedsGeneratedId(Head(parts)) THEN GeneratedIds ELSE {""}),
          rest \in PartGenerators(Tail(parts))}

\* the values the templates may take in one conversion of contents
RECURSIVE Generators(_)
Generators(contents) ==
  IF contents = << >> THEN {<< >>}
  ELSE {<<gens>> \o rest :
          gens \in PartGenerators(Head(contents).parts),
          rest \in Generators(Tail(contents))}

(* ----------------------- adapter: response stream ---------------------- *)
\* a GenerateContentResponse as the orchestrator reads it
Response(t, fcs, ps) == [text |-> t, functionCalls |-> fcs, content |-> Content("model", ps)]

ConvertStreamChunkToGeminiResponse(t) == Response(t, << >>, <<TextPart(t)>>)

ConvertToolUseToGeminiResponse(toolUse) ==
  Response(EmptyText,
           <<[name |-> toolUse.name, id |-> toolUse.id, args |-> toolUse.input]>>,
           <<FunctionCallPart(toolUse.name, toolUse.id)>>)

\* text of the first candidate's text parts, joined
RECURSIVE JoinText(_)
JoinText(parts) ==
  IF parts = << >> THEN EmptyText
  ELSE (IF Head(parts).kind = "text" THEN Head(parts).text ELSE EmptyText)
         \o JoinText(Tail(parts))

GetResponseText(response) == JoinText(response.content.parts)

(* ----------------------- orchestrator helpers -------------------------- *)
InitialClaudeHistory ==
  <<Content("user", <<TextPart(EnvText)>>), Content("model", <<TextPart(AckText)>>)>>

UserContent(t) == Content("user", <<TextPart(t)>>)

\* the history taking the content's place instead of growing by it
AddHistoryReplacing(hist, content) == <<content>>

\* addHistory(content) on the Claude provider: this.claudeHistory.push(content)
AddHistory(hist, content) == Append(hist, content)

\* the user message left out of the history
WithUserMessageDropped(hist, t) == hist

\* the history after `await this.addHistory(userContent)`
WithUserMessage(hist, t) == AddHistory(hist, UserContent(t))

\* the history startChat gives a new chat: environment, acknowledgement, extraHistory
StartChat(extraHistory) ==
  <<Content("user", <<TextPart(EnvText)>>), Content("model", <<TextPart(AckText)>>)>>
    \o extraHistory

\* histories a caller hands to setHistory: none, and an earlier conversation
Histories ==
  {<< >>,
   StartChat(<<UserContent(<<"h", "i">>), Content("model", <<TextPart(<<"o", "k">>)>>),
               UserContent(<<"h", "i">>)>>)}

(* ----------------------- adapter: token estimate ----------------------- *)
\* text += part.text + ' ' for every non-empty text part
RECURSIVE PartsText(_)
PartsText(parts) ==
  IF parts = << >> THEN EmptyText
  ELSE (IF Head(parts).kind = "text" /\ Head(parts).text # EmptyText
          THEN Head(parts).text \o <<" ">> ELSE EmptyText)
         \o PartsText(Tail(parts))

RECURSIVE ContentsText(_)
ContentsText(contents) ==
  IF contents = << >> THEN EmptyText
  ELSE PartsText(Head(contents).parts) \o ContentsText(Tail(contents))

\* String.prototype.trim for texts whose parts hold no blank
RECURSIVE Trim(_)
Trim(t) ==
  IF t # << >> /\ t[Len(t)] = " " THEN Trim(SubSeq(t, 1, Len(t) - 1))
  ELSE IF t # << >> /\ t[1] = " " THEN Trim(Tail(t))
  ELSE t

ExtractTextFromContents(contents) == Trim(ContentsText(contents))

Ceil(n, d) == (n + d - 1) \div d

\* totalTokens of countTokens({contents})
CountTokens(contents) == Ceil(Len(ExtractTextFromContents(contents)), CHARS_PER_TOKEN)

\* tokenLimit(model), scaled down to the size of the modelled texts
TokenLimit(m) == 10

\* originalTokenCount < TOKEN_THRESHOLD_FOR_SUMMARIZATION * tokenLimit(model)
UnderLimit(count, limit) == count * THRESHOLD_DEN < THRESHOLD_NUM * limit

\* the loop test with the ceiling off by one
LoopContinuesOffByOne(cc, mt) == cc /\ mt >= 0

LoopContinues(cc, mt) == cc /\ mt > 0

\* the counter stepped the wrong way
NextMaxTurnsUp(mt) == mt + 1

NextMaxTurns(mt) == mt - 1

\* fnCall.id || generated, fnCall.name || 'undefined_tool_name', fnCall.args || {}
CollectedCall(fnCall, gen) ==
  [id |-> (IF fnCall.id # "" THEN fnCall.id ELSE gen),
   name |-> (IF fnCall.name # "" THEN fnCall.name ELSE "undefined_tool_name"),
   args |-> fnCall.args]

CollectCalls(fcs, gen) == [k \in 1..Len(fcs) |-> CollectedCall(fcs[k], gen)]

RequestEvents(tcs) ==
  [k \in 1..Len(tcs) |->
     [Event("ToolCallRequest", tcs[k].id, EmptyText, "") EXCEPT !.args = tcs[k].args]]

FunctionCallParts(tcs) == [k \in 1..Len(tcs) |-> FunctionCallPart(tcs[k].name, tcs[k].id)]

\* the model-role message built from one drained stream
HistoryContent(text, tcs) ==
  LET responseParts ==
        (IF text # EmptyText THEN <<TextPart(text)>> ELSE << >>) \o FunctionCallParts(tcs)
  IN Content("model",
       IF Len(responseParts) > 0 THEN responseParts
       ELSE <<TextPart(IF text # EmptyText THEN text ELSE PlaceholderText)>>)

\* the result keyed by the tool's name instead of the call's id
ToolResultPartByName(toolCall) == FunctionResponsePart(toolCall.name, toolCall.name, FALSE)

ToolResultPart(toolCall) == FunctionResponsePart(toolCall.name, toolCall.id, FALSE)

ToolErrorPart(toolCall) == FunctionResponsePart(toolCall.name, toolCall.id, TRUE)

\* error.message of what tool.execute throws, and of the `not found` error
ToolFailedMessage == "tool failed"
ToolNotFoundMessage == "Tool not found"


(* ------------------------- session operations -------------------------- *)
\* initialize(): creates the content generator, then starts the chat (Gemini)
\* or seeds the Claude history
Initialize ==
  /\ pc = "idle"
  /\ contentGenerator' = TRUE
  /\ IF provider # "claude"
       THEN /\ hasChat' = TRUE
            /\ chat' = StartChat(<< >>)
            /\ UNCHANGED claudeHistory
       ELSE /\ claudeHistory' = InitialClaudeHistory
            /\ UNCHANGED chatVars
  /\ UNCHANGED <<pc, aborted, continueConversation, maxTurns, iterVars, events,
                 lastRequest, calls, backend, streamed, ghostVars>>
  /\ UNCHANGED <<configVars, compressVars, fallback, convertVars, startup, standaloneVars>>

\* resetChat(): the Claude history becomes empty, the Gemini chat is started anew
ResetChat ==
  /\ pc = "idle"
  /\ IF provider = "claude"
       THEN /\ claudeHistory' = << >>
            /\ UNCHANGED chatVars
       ELSE /\ contentGenerator
            /\ hasChat' = TRUE
            /\ chat' = StartChat(<< >>)
            /\ UNCHANGED claudeHistory
  /\ UNCHANGED <<contentGenerator, pc, aborted, continueConversation, maxTurns,
                 iterVars, events, lastRequest, calls, backend, streamed, ghostVars>>
  /\ UNCHANGED <<configVars, compressVars, fallback, convertVars, startup, standaloneVars>>

\* setHistory(history) on the Gemini provider: the chat takes the given history
SetHistory ==
  /\ pc = "idle"
  /\ provider # "claude"
  /\ hasChat
  /\ \E history \in Histories : chat' = history
  /\ UNCHANGED <<contentGenerator, pc, aborted, events, calls, claudeVars>>
  /\ UNCHANGED <<configVars, hasChat, compressVars, fallback, convertVars, startup, standaloneVars>>

\* the caller's AbortController fires while a call is running
Abort ==
  /\ pc # "idle"
  /\ ~aborted
  /\ aborted' = TRUE
  /\ UNCHANGED <<contentGenerator, claudeHistory, pc, continueConversation, maxTurns,
                 iterVars, events, lastRequest, calls, backend, streamed, ghostVars>>
  /\ UNCHANGED geminiVars

(* --------------------- sendClaudeMessageStream ------------------------- *)
\* the locals of one iteration, as they are when an iteration begins
FreshIteration ==
  /\ fullResponseText' = EmptyText
  /\ modelResponse' = Null
  /\ toolCalls' = << >>
  /\ toolIdx' = 0
  /\ toolResponseParts' = << >>

\* return this.createDummyTurn(): the generator is finished
Return ==
  /\ pc' = "idle"
  /\ FreshIteration

\* the catch block returning without an event
CatchErrorSilent(message) ==
  /\ events' = events
  /\ Return

\* the catch block: one Error event with the error's message, then return
CatchError(message) ==
  /\ events' = Append(events, Event("Error", "", EmptyText, message))
  /\ Return

\* sendMessageStream(request, signal) on the Claude provider, up to the loop
SendMessageStream ==
  /\ pc = "idle"
  /\ provider = "claude"
  /\ calls < MaxCalls
  /\ \E t \in UserTexts : claudeHistory' = WithUserMessage(claudeHistory, t)
  /\ calls' = calls + 1
  /\ continueConversation' = TRUE
  /\ maxTurns' = CLAUDE_MAX_TURNS
  /\ aborted' = FALSE
  /\ events' = << >>
  /\ backendCalls' = 0
  /\ dispatched' = << >>
  /\ rounds' = 0
  /\ observed' = FALSE
  /\ atObserved' = <<0, 0>>
  /\ atStream' = <<0, 0>>
  /\ sentArgs' = << >>
  /\ pc' = "loop"
  /\ UNCHANGED <<contentGenerator, iterVars, lastRequest, backend, streamed>>
  /\ UNCHANGED geminiVars

\* while (continueConversation && maxTurns > 0) is false: return
LoopExit ==
  /\ pc = "loop"
  /\ ~LoopContinues(continueConversation, maxTurns)
  /\ Return
  /\ UNCHANGED <<contentGenerator, claudeHistory, aborted, continueConversation,
                 maxTurns, events, lastRequest, calls, backend, streamed, ghostVars>>
  /\ UNCHANGED geminiVars

\* loop body entered before initialize(): getContentGenerator() throws
LoopNoGenerator ==
  /\ pc = "loop"
  /\ LoopContinues(continueConversation, maxTurns)
  /\ ~contentGenerator
  /\ maxTurns' = NextMaxTurns(maxTurns)
  /\ CatchError("Content generator not initialized")
  /\ UNCHANGED <<contentGenerator, claudeHistory, aborted, continueConversation,
                 lastRequest, calls, backend, streamed, ghostVars>>
  /\ UNCHANGED geminiVars

\* loop body: the request is built and generateContentStream rejects
LoopStreamRejected ==
  /\ pc = "loop"
  /\ LoopContinues(continueConversation, maxTurns)
  /\ contentGenerator
  /\ maxTurns' = NextMaxTurns(maxTurns)
  /\ \E gens \in Generators(claudeHistory) :
       lastRequest' = ConvertToClaudeRequest(claudeHistory, gens)
  /\ backendCalls' = backendCalls + 1
  /\ CatchError("Claude streaming error")
  /\ UNCHANGED <<contentGenerator, claudeHistory, aborted, continueConversation, calls,
                 backend, streamed, dispatched, rounds, observed, atObserved, atStream,
                 sentArgs>>
  /\ UNCHANGED geminiVars

\* the message of a rejection the backend gave for a rate limit (HTTP 429)
RateLimitMessage == "Claude streaming error: 429 rate_limit_error"

\* loop body: the request is built and generateContentStream rejects because
\* the backend answered with a rate-limit error
LoopStreamRateLimited ==
  /\ pc = "loop"
  /\ LoopContinues(continueConversation, maxTurns)
  /\ contentGenerator
  /\ maxTurns' = NextMaxTurns(maxTurns)
  /\ \E gens \in Generators(claudeHistory) :
       lastRequest' = ConvertToClaudeRequest(claudeHistory, gens)
  /\ backendCalls' = backendCalls + 1
  /\ CatchError(RateLimitMessage)
  /\ UNCHANGED <<contentGenerator, claudeHistory, aborted, continueConversation, calls,
                 backend, streamed, dispatched, rounds, observed, atObserved, atStream,
                 sentArgs>>
  /\ UNCHANGED geminiVars

\* loop body: the request is built and generateContentStream returns a stream
LoopStreamOpened ==
  /\ pc = "loop"
  /\ LoopContinues(continueConversation, maxTurns)
  /\ contentGenerator
  /\ maxTurns' = NextMaxTurns(maxTurns)
  /\ \E gens \in Generators(claudeHistory) :
       lastRequest' = ConvertToClaudeRequest(claudeHistory, gens)
  /\ backendCalls' = backendCalls + 1
  /\ FreshIteration
  /\ atStream' = <<Len(dispatched), Len(events)>>
  /\ sentArgs' = << >>
  /\ pc' = "stream"
  /\ UNCHANGED <<contentGenerator, claudeHistory, aborted, continueConversation, events,
                 calls, backend, streamed, dispatched, rounds, observed, atObserved>>
  /\ UNCHANGED geminiVars

\* the loop body keeping the text without yielding it
ProcessBuffered(response, evs, gen) ==
  LET text == GetResponseText(response)
      newCalls == CollectCalls(response.functionCalls, gen)
  IN /\ fullResponseText' = fullResponseText \o text
     /\ events' = evs \o RequestEvents(newCalls)
     /\ toolCalls' = toolCalls \o newCalls
     /\ modelResponse' = (IF modelResponse = Null THEN response.content ELSE modelResponse)
     /\ toolIdx' = toolIdx
     /\ toolResponseParts' = toolResponseParts
     /\ pc' = "stream"

\* body of the for-await loop after the abort check, for one response
Process(response, evs, gen) ==
  LET text == GetResponseText(response)
      newCalls == CollectCalls(response.functionCalls, gen)
  IN /\ fullResponseText' = fullResponseText \o text
     /\ events' = evs
          \o (IF text # EmptyText THEN <<Event("Content", "", text, "")>> ELSE << >>)
          \o RequestEvents(newCalls)
     /\ toolCalls' = toolCalls \o newCalls
     /\ modelResponse' = (IF modelResponse = Null THEN response.content ELSE modelResponse)
     /\ toolIdx' = toolIdx
     /\ toolResponseParts' = toolResponseParts
     /\ pc' = "stream"

\* the abort check yielding the event without returning
OnAbortKeepsReading(response, gen) ==
  Process(response, Append(events, Event("UserCancelled", "", EmptyText, "")), gen)

\* if (signal?.aborted) { yield UserCancelled; return }
OnAbort(response, gen) ==
  /\ events' = Append(events, Event("UserCancelled", "", EmptyText, ""))
  /\ Return

\* one response of the adapter's generator reaches the for-await loop
Consume(response, gen) ==
  IF aborted
    THEN /\ OnAbort(response, gen)
         /\ observed' = TRUE
         /\ atObserved' = <<backendCalls, Len(dispatched)>>
    ELSE /\ Process(response, events, gen)
         /\ UNCHANGED <<observed, atObserved>>

\* what the backend may stream next: an unconstrained backend any chunk while
\* the session's chunk bound lasts, the adversarial one a single tool_use chunk
MayStream(baseline) ==
  \/ backend \in {"any", "args"} /\ streamed < MaxStreamed
  \/ backend = "adversarial" /\ baseline /\ toolCalls = << >>

\* what the backend that answers an input with one tool call and then with
\* text may stream next: the tool_use chunk in its first response, one text
\* in its second
Scripted(kind) ==
  /\ backend = "toolThenText"
  /\ IF backendCalls = 1
       THEN kind = "tool" /\ toolCalls = << >>
       ELSE kind = "text" /\ fullResponseText = EmptyText

\* the tool_use blocks the backend may start after k collected calls
ToolUses(k) == IF backend = "args" THEN ArgsToolUses(k) ELSE BackendToolUses(k)

StreamFrame ==
  /\ streamed' = (IF backend \in {"adversarial", "toolThenText"}
                     THEN streamed ELSE streamed + 1)
  /\ UNCHANGED <<contentGenerator, claudeHistory, aborted, continueConversation, maxTurns,
                 lastRequest, calls, backend, backendCalls, dispatched, rounds, atStream>>
  /\ UNCHANGED geminiVars

\* createAsyncGenerator: a text_delta chunk is converted and yielded
StreamTextDelta ==
  /\ pc = "stream"
  /\ MayStream(FALSE) \/ Scripted("text")
  /\ \E t \in DeltaTexts :
       Consume(ConvertStreamChunkToGeminiResponse(t), GeneratedId(Len(toolCalls)))
  /\ UNCHANGED sentArgs
  /\ StreamFrame

\* createAsyncGenerator: a content_block_start chunk of a tool_use block
StreamToolUse ==
  /\ pc = "stream"
  /\ \E toolUse \in ToolUses(Len(toolCalls)) :
       /\ LET baseline == toolUse.name \in Registry /\ toolUse.id # ""
          IN MayStream(baseline) \/ (baseline /\ Scripted("tool"))
       /\ Consume(ConvertToolUseToGeminiResponse(toolUse), GeneratedId(Len(toolCalls)))
       /\ sentArgs' = (IF aborted THEN sentArgs ELSE Append(sentArgs, toolUse.input))
  /\ StreamFrame

\* createAsyncGenerator: an input_json_delta chunk of the tool_use block that
\* was started last is logged and not yielded
StreamInputJsonDelta ==
  /\ pc = "stream"
  /\ backend = "args"
  /\ MayStream(FALSE)
  /\ sentArgs # << >>
  /\ \E delta \in ArgsDeltas :
       sentArgs' = [sentArgs EXCEPT ![Len(sentArgs)] = @ \o delta]
  /\ streamed' = streamed + 1
  /\ UNCHANGED <<contentGenerator, claudeHistory, pc, aborted, continueConversation,
                 maxTurns, iterVars, events, lastRequest, calls, backend, backendCalls,
                 dispatched, rounds, observed, atObserved, atStream>>
  /\ UNCHANGED geminiVars

\* createAsyncGenerator: any other chunk is logged and not yielded
StreamOtherChunk ==
  /\ pc = "stream"
  /\ MayStream(FALSE)
  /\ streamed' = streamed + 1
  /\ UNCHANGED <<contentGenerator, claudeHistory, pc, aborted, continueConversation,
                 maxTurns, iterVars, events, lastRequest, calls, backend, ghostVars>>
  /\ UNCHANGED geminiVars

\* the stream throws while it is read: catch block
StreamThrows ==
  /\ pc = "stream"
  /\ CatchError("stream error")
  /\ UNCHANGED <<contentGenerator, claudeHistory, aborted, continueConversation,
                 maxTurns, lastRequest, calls, backend, streamed, ghostVars>>
  /\ UNCHANGED geminiVars

\* the model message kept only when the stream brought text
WithModelMessageTextOnly(hist, text, mr, tcs) ==
  IF text # EmptyText THEN Append(hist, HistoryContent(text, tcs)) ELSE hist

\* lines 390-419: the history after the drained stream's model message
WithModelMessage(hist, text, mr, tcs) ==
  IF text # EmptyText \/ mr # Null \/ Len(tcs) > 0
    THEN AddHistory(hist, HistoryContent(text, tcs))
    ELSE hist

\* one user message per tool result
WithToolResultsSplit(hist, parts) ==
  hist \o [k \in 1..Len(parts) |-> Content("user", <<parts[k]>>)]

\* lines 500-510: the history after the iteration's tool results
WithToolResults(hist, parts) ==
  IF Len(parts) > 0 THEN AddHistory(hist, Content("user", parts)) ELSE hist

\* the drained stream asking for another backend call when it brought nothing
StreamEndRetriesEmpty ==
  /\ pc = "stream"
  /\ backend = "adversarial" => Len(toolCalls) > 0
  /\ backend = "toolThenText" =>
       IF backendCalls = 1 THEN Len(toolCalls) > 0 ELSE fullResponseText # EmptyText
  /\ claudeHistory' =
       WithModelMessage(claudeHistory, fullResponseText, modelResponse, toolCalls)
  /\ IF Len(toolCalls) > 0
       THEN /\ pc' = "dispatch"
            /\ toolIdx' = 1
            /\ rounds' = rounds + 1
            /\ UNCHANGED continueConversation
       ELSE /\ pc' = "loop"
            /\ continueConversation' = (fullResponseText = EmptyText)
            /\ UNCHANGED <<toolIdx, rounds>>
  /\ UNCHANGED <<contentGenerator, aborted, maxTurns, fullResponseText, modelResponse,
                 toolCalls, toolResponseParts, events, lastRequest, calls, backend,
                 streamed, backendCalls, dispatched, observed, atObserved, atStream,
                 sentArgs>>
  /\ UNCHANGED geminiVars

\* the for-await loop ends: model message, then tool loop or loop exit
StreamEnd ==
  /\ pc = "stream"
  /\ backend = "adversarial" => Len(toolCalls) > 0
  /\ backend = "toolThenText" =>
       IF backendCalls = 1 THEN Len(toolCalls) > 0 ELSE fullResponseText # EmptyText
  /\ claudeHistory' =
       WithModelMessage(claudeHistory, fullResponseText, modelResponse, toolCalls)
  /\ IF Len(toolCalls) > 0
       THEN /\ pc' = "dispatch"
            /\ toolIdx' = 1
            /\ rounds' = rounds + 1
            /\ UNCHANGED continueConversation
       ELSE /\ pc' = "loop"
            /\ continueConversation' = FALSE
            /\ UNCHANGED <<toolIdx, rounds>>
  /\ UNCHANGED <<contentGenerator, aborted, maxTurns, fullResponseText, modelResponse,
                 toolCalls, toolResponseParts, events, lastRequest, calls, backend,
                 streamed, backendCalls, dispatched, observed, atObserved, atStream,
                 sentArgs>>
  /\ UNCHANGED geminiVars

\* the for loop walking toolCalls from the end
CurrentCallReversed(tcs, idx) == tcs[Len(tcs) + 1 - idx]

\* the call the for loop over toolCalls is at
CurrentCall(tcs, idx) == tcs[idx]

\* end of one pass of the for loop over toolCalls, parts being the results so far
AfterTool(parts) ==
  /\ toolResponseParts' = parts
  /\ toolIdx' = toolIdx + 1
  /\ IF toolIdx < Len(toolCalls)
       THEN /\ pc' = "dispatch"
            /\ UNCHANGED <<claudeHistory, continueConversation>>
       ELSE /\ claudeHistory' = WithToolResults(claudeHistory, parts)
            /\ continueConversation' = (Len(parts) > 0)
            /\ pc' = "loop"

\* the tool's error escaping to the outer catch block
OnToolErrorRethrown(toolCall, message) ==
  /\ events' = Append(events, Event("Error", "", EmptyText, message))
  /\ pc' = "idle"
  /\ UNCHANGED <<toolResponseParts, toolIdx, claudeHistory, continueConversation>>

\* the catch of one tool call: error part and error response, the loop goes on
OnToolError(toolCall, message) ==
  /\ events' = Append(events, Event("ToolCallResponse", toolCall.id, EmptyText, message))
  /\ AfterTool(Append(toolResponseParts, ToolErrorPart(toolCall)))

ToolFrame ==
  /\ UNCHANGED <<contentGenerator, aborted, maxTurns, fullResponseText, modelResponse,
                 toolCalls, lastRequest, calls, backend, streamed, backendCalls, rounds,
                 observed, atObserved, atStream, sentArgs>>
  /\ UNCHANGED geminiVars

\* toolRegistry.getTool(name) finds the tool: tool.execute is awaited
ToolStart ==
  /\ pc = "dispatch"
  /\ LET toolCall == CurrentCall(toolCalls, toolIdx)
     IN /\ toolCall.name \in Registry
        /\ dispatched' = Append(dispatched, [id |-> toolCall.id, aborted |-> aborted])
  /\ pc' = "executing"
  /\ UNCHANGED <<claudeHistory, continueConversation, toolIdx, toolResponseParts, events>>
  /\ ToolFrame

\* toolRegistry.getTool(name) finds nothing: `Tool ... not found` is thrown and caught
ToolNotFound ==
  /\ pc = "dispatch"
  /\ LET toolCall == CurrentCall(toolCalls, toolIdx)
     IN /\ toolCall.name \notin Registry
        /\ OnToolError(toolCall, ToolNotFoundMessage)
  /\ UNCHANGED dispatched
  /\ ToolFrame

\* tool.execute resolves: result part and response event
ToolReturns ==
  /\ pc = "executing"
  /\ LET toolCall == CurrentCall(toolCalls, toolIdx)
     IN /\ events' = Append(events, Event("ToolCallResponse", toolCall.id, EmptyText, ""))
        /\ AfterTool(Append(toolResponseParts, ToolResultPart(toolCall)))
  /\ UNCHANGED dispatched
  /\ ToolFrame

\* tool.execute rejects: caught
ToolThrows ==
  /\ pc = "executing"
  /\ backend = "any"
  /\ OnToolError(CurrentCall(toolCalls, toolIdx), ToolFailedMessage)
  /\ UNCHANGED dispatched
  /\ ToolFrame

(* ---------------------------- tryCompressChat -------------------------- *)
ChatNotInitialized == "Chat not initialized"
CountTokensFailed == "countTokens failed"
SendMessageFailed == "sendMessage failed"

Min(a, b) == IF a < b THEN a ELSE b

\* what leaves the Gemini path and tryCompressChat alone
GeminiFrame == UNCHANGED <<contentGenerator, claudeVars, configVars, convertVars, startup, standaloneVars>>

\* the caller of tryCompressChat going on with the value it returned:
\* sendMessageStream yields ChatCompressed for a value and runs the turn
Resume(o, evs, result) ==
  /\ compressed' = result
  /\ IF o = "turn"
       THEN /\ events' = (IF result.some
                            THEN Append(evs, [Event("ChatCompressed", "", EmptyText, "")
                                                EXCEPT !.info = result])
                            ELSE evs)
            /\ pc' = "turn"
       ELSE /\ events' = evs
            /\ pc' = "idle"

\* the empty check ignored when compression is forced
IsEmptyHistoryUnlessForced(curatedHistory, f) == ~f /\ Len(curatedHistory) = 0

\* curatedHistory.length === 0
IsEmptyHistory(curatedHistory, f) == Len(curatedHistory) = 0

\* tryCompressChat(f) up to its first await: getChat() throws without a chat,
\* an empty curated history returns null, otherwise countTokens is called
BeginCompress(o, f, evs) ==
  /\ origin' = o
  /\ force' = f
  /\ IF ~hasChat
       THEN /\ pc' = "idle"
            /\ thrown' = ChatNotInitialized
            /\ events' = evs
            /\ compressed' = NoCompression
       ELSE IF IsEmptyHistory(chat, f)
         THEN /\ thrown' = ""
              /\ Resume(o, evs, NoCompression)
         ELSE /\ thrown' = ""
              /\ pc' = "counting"
              /\ events' = evs
              /\ compressed' = NoCompression

\* a new top-level call on the client: the records of the last call are cleared
NewCall ==
  /\ calls < MaxCalls
  /\ calls' = calls + 1
  /\ aborted' = FALSE
  /\ continuations' = 0
  /\ originalTokenCount' = 0
  /\ countTokensCalls' = 0
  /\ summarizeCalls' = 0
  /\ replaced' = FALSE
  /\ summarized' = <<0, 0>>

\* the turns argument of sendMessageStream: 0, 1, and a value above MAX_TURNS
TurnsArguments == {0, 1, MAX_TURNS + 1}

\* sendMessageStream(request, signal, turns) on the Gemini provider, up to the
\* first await of the pre-turn tryCompressChat()
SendGeminiMessageStream ==
  /\ pc = "idle"
  /\ provider # "claude"
  /\ NewCall
  /\ \E turns \in TurnsArguments :
       /\ boundedTurns' = Min(turns, MAX_TURNS)
       /\ IF boundedTurns' = 0
            THEN /\ pc' = "idle"
                 /\ thrown' = (IF hasChat THEN "" ELSE ChatNotInitialized)
                 /\ events' = << >>
                 /\ compressed' = NoCompression
                 /\ UNCHANGED <<origin, force>>
            ELSE BeginCompress("turn", FALSE, << >>)
  /\ fallback' = NoFallback
  /\ UNCHANGED chatVars
  /\ GeminiFrame

\* tryCompressChat(force) called by the client's user, up to its first await
TryCompressChat ==
  /\ pc = "idle"
  /\ NewCall
  /\ \E f \in BOOLEAN : BeginCompress("direct", f, << >>)
  /\ fallback' = NoFallback
  /\ UNCHANGED <<boundedTurns, chatVars>>
  /\ GeminiFrame

\* countTokens resolves: the threshold test
CountTokensReturns ==
  /\ pc = "counting"
  /\ \E totalTokens \in {CountTokens(chat), UndefinedCount} :
       LET count == IF totalTokens = UndefinedCount THEN 0 ELSE totalTokens
       IN /\ originalTokenCount' = count
          /\ IF ~force /\ UnderLimit(count, TokenLimit(model))
               THEN Resume(origin, events, NoCompression)
               ELSE /\ pc' = "summarizing"
                    /\ UNCHANGED <<events, compressed>>
  /\ countTokensCalls' = countTokensCalls + 1
  /\ UNCHANGED <<aborted, calls, chatVars, boundedTurns, continuations, force, origin,
                 summarizeCalls, replaced, thrown, summarized>>
  /\ UNCHANGED fallback
  /\ GeminiFrame

\* countTokens rejects: nothing catches the error
CountTokensThrows ==
  /\ pc = "counting"
  /\ countTokensCalls' = countTokensCalls + 1
  /\ thrown' = CountTokensFailed
  /\ pc' = "idle"
  /\ UNCHANGED <<aborted, events, calls, chatVars, boundedTurns, continuations, force,
                 origin, originalTokenCount, compressed, summarizeCalls, replaced,
                 summarized>>
  /\ UNCHANGED fallback
  /\ GeminiFrame

\* this.chat after compression: startChat([user: summary, model: acknowledgement])
CompressedChat(summary) ==
  StartChat(<<UserContent(summary), Content("model", <<TextPart(AddAckText)>>)>>)

\* the summarization call resolves: the chat is replaced, countTokens is called
SummaryReturns ==
  /\ pc = "summarizing"
  /\ \E summary \in Summaries :
       /\ chat' = CompressedChat(summary)
       /\ summarized' = <<Len(ExtractTextFromContents(chat)), Len(summary)>>
  /\ summarizeCalls' = summarizeCalls + 1
  /\ replaced' = TRUE
  /\ pc' = "recounting"
  /\ UNCHANGED <<aborted, events, calls, hasChat, boundedTurns, continuations, force,
                 origin, originalTokenCount, compressed, countTokensCalls, thrown>>
  /\ UNCHANGED fallback
  /\ GeminiFrame

\* the summarization call rejects: nothing catches the error
SummaryThrows ==
  /\ pc = "summarizing"
  /\ summarizeCalls' = summarizeCalls + 1
  /\ thrown' = SendMessageFailed
  /\ pc' = "idle"
  /\ UNCHANGED <<aborted, events, calls, chatVars, boundedTurns, continuations, force,
                 origin, originalTokenCount, compressed, countTokensCalls, replaced,
                 summarized>>
  /\ UNCHANGED fallback
  /\ GeminiFrame

\* the value tryCompressChat returns for the count of the new history
CompressionResult(original, newTokenCount) ==
  IF newTokenCount = UndefinedCount THEN NoCompression
  ELSE ChatCompressionInfo(original, newTokenCount)

\* countTokens of the new history resolves: tryCompressChat returns
RecountReturns ==
  /\ pc = "recounting"
  /\ \E newTokenCount \in {CountTokens(chat), UndefinedCount} :
       Resume(origin, events, CompressionResult(originalTokenCount, newTokenCount))
  /\ countTokensCalls' = countTokensCalls + 1
  /\ UNCHANGED <<aborted, calls, chatVars, boundedTurns, continuations, force, origin,
                 originalTokenCount, summarizeCalls, replaced, thrown, summarized>>
  /\ UNCHANGED fallback
  /\ GeminiFrame

\* countTokens of the new history rejects: nothing catches the error
RecountThrows ==
  /\ pc = "recounting"
  /\ countTokensCalls' = countTokensCalls + 1
  /\ thrown' = CountTokensFailed
  /\ pc' = "idle"
  /\ UNCHANGED <<aborted, events, calls, chatVars, boundedTurns, continuations, force,
                 origin, originalTokenCount, compressed, summarizeCalls, replaced,
                 summarized>>
  /\ UNCHANGED fallback
  /\ GeminiFrame

(* ------------------- sendMessageStream, Gemini path -------------------- *)
\* turn.run(request, signal): the request and the model's reply join the chat,
\* the reply is yielded, tool calls may be left pending; then the test before
\* the next-speaker check
TurnRuns ==
  /\ pc = "turn"
  /\ \E request \in (IF continuations = 0 THEN UserTexts ELSE {ContinueText}),
        pending \in BOOLEAN :
       /\ chat' = chat \o <<UserContent(request), Content("model", <<TextPart(<<"o", "k">>)>>)>>
       /\ events' = events
            \o <<Event("Content", "", <<"o", "k">>, "")>>
            \o (IF pending THEN <<Event("ToolCallRequest", "t1", EmptyText, "")>> ELSE << >>)
       /\ pc' = (IF ~pending /\ ~aborted /\ provider = "gemini" THEN "nextSpeaker" ELSE "idle")
  /\ UNCHANGED <<aborted, calls, hasChat, compressVars>>
  /\ UNCHANGED fallback
  /\ GeminiFrame

\* checkNextSpeaker answers 'model': sendMessageStream calls itself with
\* 'Please continue.' and boundedTurns - 1
NextSpeakerModel ==
  /\ pc = "nextSpeaker"
  /\ continuations < MaxContinue
  /\ continuations' = continuations + 1
  /\ boundedTurns' = Min(boundedTurns - 1, MAX_TURNS)
  /\ IF boundedTurns' = 0
       THEN /\ pc' = "idle"
            /\ UNCHANGED <<events, origin, force, thrown, compressed>>
       ELSE BeginCompress("turn", FALSE, events)
  /\ UNCHANGED <<aborted, calls, chatVars, originalTokenCount, countTokensCalls,
                 summarizeCalls, replaced, summarized>>
  /\ UNCHANGED fallback
  /\ GeminiFrame

\* checkNextSpeaker answers anything else: the call returns
NextSpeakerOther ==
  /\ pc = "nextSpeaker"
  /\ pc' = "idle"
  /\ UNCHANGED <<aborted, events, calls, chatVars, compressVars>>
  /\ UNCHANGED fallback
  /\ GeminiFrame

(* -------------------------- handleFlashFallback ------------------------ *)
\* the fallback taken whatever the auth type is
FallbackResultAnyAuth(authType, currentModel, handler) ==
  IF currentModel # DEFAULT_GEMINI_FLASH_MODEL /\ handler = "accept"
    THEN DEFAULT_GEMINI_FLASH_MODEL
    ELSE ""

\* what handleFlashFallback(authType) returns ("" is null)
FallbackResult(authType, currentModel, handler) ==
  IF authType # LOGIN_WITH_GOOGLE THEN ""
  ELSE IF currentModel = DEFAULT_GEMINI_FLASH_MODEL THEN ""
  ELSE IF handler = "accept" THEN DEFAULT_GEMINI_FLASH_MODEL
  ELSE ""

\* handleFlashFallback(authType): config.setModel(fallbackModel) on approval
HandleFlashFallback ==
  /\ pc = "idle"
  /\ NewCall
  /\ events' = << >>
  /\ thrown' = ""
  /\ compressed' = NoCompression
  /\ \E authType \in AuthTypes, handler \in FallbackHandlers :
       LET result == FallbackResult(authType, model, handler)
       IN /\ model' = (IF result # "" THEN result ELSE model)
          /\ fallback' = [authType |-> authType, handler |-> handler,
                          before |-> model, result |-> result]
  /\ UNCHANGED <<contentGenerator, pc, claudeVars, provider, chatVars, boundedTurns,
                 force, origin, convertVars, startup, standaloneVars>>

Next ==
  \/ Initialize
  \/ ResetChat
  \/ Abort
  \/ SendMessageStream
  \/ LoopExit
  \/ LoopNoGenerator
  \/ LoopStreamRejected
  \/ LoopStreamOpened
  \/ StreamTextDelta
  \/ StreamToolUse
  \/ StreamOtherChunk
  \/ StreamThrows
  \/ StreamEnd
  \/ ToolStart
  \/ ToolNotFound
  \/ ToolReturns
  \/ ToolThrows

Spec == Init /\ [][Next]_vars

\* the actions an adversarial backend leaves enabled
NextAdversarial ==
  \/ Initialize
  \/ ResetChat
  \/ Abort
  \/ SendMessageStream
  \/ LoopExit
  \/ LoopNoGenerator
  \/ LoopStreamRejected
  \/ LoopStreamOpened
  \/ StreamToolUse
  \/ StreamThrows
  \/ StreamEnd
  \/ ToolStart
  \/ ToolReturns

SpecAdversarial == InitAdversarial /\ [][NextAdversarial]_vars

\* the actions of a session whose backend streams tool arguments
NextArgs ==
  \/ Initialize
  \/ Abort
  \/ SendMessageStream
  \/ LoopExit
  \/ LoopStreamOpened
  \/ StreamToolUse
  \/ StreamInputJsonDelta
  \/ StreamEnd
  \/ ToolStart
  \/ ToolReturns

SpecArgs == InitArgs /\ [][NextArgs]_vars

\* the operations of a session whose inputs are answered with one tool call
\* that succeeds and then with text
NextToolThenText ==
  \/ Initialize
  \/ ResetChat
  \/ SendMessageStream
  \/ LoopExit
  \/ LoopNoGenerator
  \/ LoopStreamOpened
  \/ StreamTextDelta
  \/ StreamToolUse
  \/ StreamEnd
  \/ ToolStart
  \/ ToolReturns

SpecToolThenText == InitToolThenText /\ [][NextToolThenText]_vars

\* a session of the Claude provider whose backend may answer with a rate limit
NextRateLimit ==
  \/ Initialize
  \/ ResetChat
  \/ Abort
  \/ SendMessageStream
  \/ LoopExit
  \/ LoopNoGenerator
  \/ LoopStreamRejected
  \/ LoopStreamRateLimited
  \/ LoopStreamOpened
  \/ StreamTextDelta
  \/ StreamToolUse
  \/ StreamOtherChunk
  \/ StreamThrows
  \/ StreamEnd
  \/ ToolStart
  \/ ToolNotFound
  \/ ToolReturns
  \/ ToolThrows

SpecRateLimit == Init /\ [][NextRateLimit]_vars

\* the operations of a session of the Gemini provider
NextGemini ==
  \/ Initialize
  \/ ResetChat
  \/ SetHistory
  \/ Abort
  \/ SendGeminiMessageStream
  \/ TryCompressChat
  \/ CountTokensReturns
  \/ CountTokensThrows
  \/ SummaryReturns
  \/ SummaryThrows
  \/ RecountReturns
  \/ RecountThrows
  \/ TurnRuns
  \/ NextSpeakerModel
  \/ NextSpeakerOther
  \/ HandleFlashFallback

SpecGemini == InitGemini /\ [][NextGemini]_vars

(* ------------------------------ embeddings ----------------------------- *)
UnsupportedEmbeddings == "Claude does not support embeddings"
NotInitialized == "Content generator not initialized"
NoEmbeddingsFound == "No embeddings found in API response."
MismatchedEmbeddings == "API returned a mismatched number of embeddings"

\* the lists of texts handed to generateEmbedding
TextLists == UNION {[1..n -> {"a", "b"}] : n \in 0..MaxTexts}

\* what ClaudeContentGenerator.embedContent does with a request: it throws
EmbedContent(contents) ==
  [embeddings |-> << >>, thrown |-> UnsupportedEmbeddings]

\* generateEmbedding without its test for an empty list
GenerateEmbeddingNoShortcut(texts, initialized) ==
  IF ~initialized
    THEN Embedding("generateEmbedding", texts, initialized, FALSE, << >>, NotInitialized)
    ELSE Embedding("generateEmbedding", texts, initialized, FALSE, << >>,
                   EmbedContent(texts).thrown)

\* how GeminiClient.generateEmbedding(texts) ends on the Claude provider
GenerateEmbedding(texts, initialized) ==
  IF Len(texts) = 0
    THEN Embedding("generateEmbedding", texts, initialized, TRUE, << >>, "")
  ELSE IF ~initialized
    THEN Embedding("generateEmbedding", texts, initialized, FALSE, << >>, NotInitialized)
  ELSE LET response == EmbedContent(texts)
       IN IF response.thrown # ""
            THEN Embedding("generateEmbedding", texts, initialized, FALSE, << >>,
                           response.thrown)
          ELSE IF Len(response.embeddings) = 0
            THEN Embedding("generateEmbedding", texts, initialized, FALSE, << >>,
                           NoEmbeddingsFound)
          ELSE IF Len(response.embeddings) # Len(texts)
            THEN Embedding("generateEmbedding", texts, initialized, FALSE, << >>,
                           MismatchedEmbeddings)
          ELSE Embedding("generateEmbedding", texts, initialized, TRUE,
                         response.embeddings, "")

EmbedFrame ==
  UNCHANGED <<contentGenerator, pc, aborted, events, claudeVars, configVars, chatVars,
              compressVars, fallback, cvContents, cvFirst, cvSecond, cvTokens, startup, standaloneVars>>

\* ClaudeContentGenerator.embedContent(request) called on the adapter
EmbedContentCall ==
  /\ pc = "idle"
  /\ calls < MaxCalls
  /\ calls' = calls + 1
  /\ \E texts \in TextLists :
       LET response == EmbedContent(texts)
       IN embedded' = Embedding("embedContent", texts, contentGenerator,
                                response.thrown = "", response.embeddings,
                                response.thrown)
  /\ EmbedFrame

\* GeminiClient.generateEmbedding(texts)
GenerateEmbeddingCall ==
  /\ pc = "idle"
  /\ calls < MaxCalls
  /\ calls' = calls + 1
  /\ \E texts \in TextLists : embedded' = GenerateEmbedding(texts, contentGenerator)
  /\ EmbedFrame

\* the embedding operations of a session of the Claude provider
NextEmbed ==
  \/ Initialize
  \/ EmbedContentCall
  \/ GenerateEmbeddingCall

SpecEmbed == Init /\ [][NextEmbed]_vars

(* ------------------------- countTokens on its own ----------------------- *)
\* a text of n characters without blanks
TextOf(n) == [k \in 1..n |-> "x"]

\* lengths of the text parts of the counted transcripts
PartLengths == {100, 200, 300, 400}

\* messages of one or two text parts
CountedContents ==
  {UserContent(TextOf(a)) : a \in PartLengths}
    \cup {Content("user", <<TextPart(TextOf(a)), TextPart(TextOf(b))>>) :
            a \in PartLengths, b \in PartLengths}

\* transcripts of one or two messages
CountedTranscripts ==
  {<<c>> : c \in CountedContents}
    \cup {<<c, d>> : c \in CountedContents, d \in CountedContents}

\* an adapter about to count one of the transcripts
InitCount ==
  /\ InitSession
  /\ provider = "claude"
  /\ model = DEFAULT_CLAUDE_MODEL
  /\ backend = "any"
  /\ cvContents \in CountedTranscripts
  /\ startup = NoStartup
  /\ InitStandalone

\* countTokens({contents}) on the Claude adapter
CountTokensCall ==
  /\ cvTokens = UndefinedCount
  /\ cvTokens' = CountTokens(cvContents)
  /\ UNCHANGED <<contentGenerator, pc, aborted, events, calls, claudeVars, configVars,
                 chatVars, compressVars, fallback, cvContents, cvFirst, cvSecond,
                 embedded, startup, standaloneVars>>

NextCount == CountTokensCall

SpecCount == InitCount /\ [][NextCount]_vars

(* ------------------- convertToClaudeRequest on its own ------------------ *)
\* messages of the transcripts handed to the conversion: tool calls and tool
\* results with and without an id of their own, and text
ConvertibleContents ==
  {Content("model", <<FunctionCallPart("ls", "t1")>>),
   Content("model", <<FunctionCallPart("ls", "")>>),
   Content("model", <<FunctionCallPart("ls", ""), FunctionCallPart("ls", "")>>),
   Content("user", <<FunctionResponsePart("ls", "t1", FALSE)>>),
   Content("user", <<FunctionResponsePart("ls", "", FALSE)>>),
   UserContent(<<"h", "i">>)}

Transcripts ==
  {<<c>> : c \in ConvertibleContents}
    \cup {<<c, d>> : c \in ConvertibleContents, d \in ConvertibleContents}

\* an adapter about to convert one of the transcripts
InitConvert ==
  /\ InitSession
  /\ provider = "claude"
  /\ model = DEFAULT_CLAUDE_MODEL
  /\ backend = "any"
  /\ cvContents \in Transcripts
  /\ startup = NoStartup
  /\ InitStandalone

\* convertToClaudeRequest({contents}) called twice on the same transcript
ConvertTwice ==
  /\ cvFirst = << >>
  /\ \E first \in Generators(cvContents), second \in Generators(cvContents) :
       /\ cvFirst' = ConvertToClaudeRequest(cvContents, first)
       /\ cvSecond' = ConvertToClaudeRequest(cvContents, second)
  /\ UNCHANGED <<contentGenerator, pc, aborted, events, calls, claudeVars, configVars,
                 chatVars, compressVars, fallback, cvContents, cvTokens, embedded,
                 startup,
                 standaloneVars>>

NextConvert == ConvertTwice

SpecConvert == InitConvert /\ [][NextConvert]_vars


(* -------------------- startup: provider and auth type ------------------- *)
\* a || b of two strings, "" being the absent one
Or(a, b) == IF a # "" THEN a ELSE b

\* choices: ['gemini', 'claude'], and "" for a provider that is not given
GivenProviders == {"", "gemini", "claude"}
\* selectedAuthType as the settings file may hold it, "" when it holds none
StoredAuthTypes == {"", USE_CLAUDE, USE_GEMINI, LOGIN_WITH_GOOGLE}

ExplicitClaudeWithoutKey ==
  "You explicitly requested --provider claude but no CLAUDE_API_KEY environment variable is set"
NoAuthMethod == "Please set an Auth method"
MissingKey == "environment variable not found"

\* argv.provider of parseArguments: the flag, or its default
\* process.env.AI_PROVIDER || 'gemini'
ParsedProvider(st) == Or(st.flag, Or(st.AI_PROVIDER, "gemini"))

\* const hasExistingAuth / isExplicitProviderOverride / needsAuthUpdate of main,
\* where argv is the bare parse of the command line: argv.provider is the flag
NeedsAuthUpdate(st) ==
  LET detected == Or(st.flag, Or(st.settingsProvider, Or(st.AI_PROVIDER, "gemini")))
      hasExistingAuth == st.selectedAuthType # ""
      isExplicitProviderOverride == st.flag # ""
  IN \/ ~hasExistingAuth
     \/ isExplicitProviderOverride
     \/ /\ hasExistingAuth
        /\ \/ detected = "claude" /\ st.selectedAuthType # USE_CLAUDE
           \/ detected = "gemini" /\ st.selectedAuthType = USE_CLAUDE

\* loadCliConfig(settings, ...): selectedAuthType as it leaves it in settings,
\* provider and authType of the Config it builds, the message of what it throws
LoadCliConfig(st) ==
  LET argvProvider == ParsedProvider(st)
      detected == Or(argvProvider, Or(st.settingsProvider, Or(st.AI_PROVIDER, "gemini")))
      selected ==
        IF st.selectedAuthType # "" THEN st.selectedAuthType
        ELSE IF detected = "claude" /\ st.CLAUDE_API_KEY THEN USE_CLAUDE
        ELSE IF detected = "gemini" /\ st.GEMINI_API_KEY THEN USE_GEMINI
        ELSE ""
      requested == Or(argvProvider, Or(st.settingsProvider, "gemini"))
      isExplicitProviderOverride == argvProvider # ""
      determines == selected = "" \/ isExplicitProviderOverride
      keyless == determines /\ requested = "claude" /\ ~st.CLAUDE_API_KEY
      finalProvider == IF keyless /\ ~isExplicitProviderOverride THEN "gemini" ELSE requested
      authType ==
        IF ~determines THEN selected
        ELSE IF finalProvider = "claude" THEN USE_CLAUDE
        ELSE IF finalProvider = "gemini"
          THEN (IF st.GEMINI_API_KEY THEN USE_GEMINI ELSE LOGIN_WITH_GOOGLE)
        ELSE selected
  IN IF keyless /\ isExplicitProviderOverride
       THEN [selectedAuthType |-> selected, provider |-> "", authType |-> "",
             error |-> ExplicitClaudeWithoutKey]
       ELSE [selectedAuthType |-> selected, provider |-> finalProvider,
             authType |-> authType, error |-> ""]

\* validateAuthMethod(authType): the error it reports, "" for none; an auth
\* type that uses an API key is refused when that key is not set
ValidateAuthMethod(st, authType) ==
  IF authType = USE_CLAUDE /\ ~st.CLAUDE_API_KEY THEN MissingKey
  ELSE IF authType = USE_GEMINI /\ ~st.GEMINI_API_KEY THEN MissingKey
  ELSE ""

\* a start of the CLI for every combination of what it can be given
InitStartup ==
  /\ InitSession
  /\ provider = "gemini"
  /\ model = DEFAULT_GEMINI_MODEL
  /\ cvContents = << >>
  /\ backend = "any"
  /\ \E flag \in GivenProviders, settingsProvider \in GivenProviders,
        aiProvider \in GivenProviders, stored \in StoredAuthTypes,
        claudeKey \in BOOLEAN, geminiKey \in BOOLEAN :
       startup = Startup("main", flag, settingsProvider, aiProvider, stored,
                         claudeKey, geminiKey, "", "", "", "")
  /\ InitStandalone

StartupFrame ==
  UNCHANGED <<contentGenerator, pc, aborted, events, calls, claudeVars, configVars,
              chatVars, compressVars, fallback, convertVars, standaloneVars>>

\* main, from the bare parse of the command line to "Final early selectedAuthType"
EarlyAuthConfig ==
  /\ startup.stage = "main"
  /\ LET st == startup
         detected == Or(st.flag, Or(st.settingsProvider, Or(st.AI_PROVIDER, "gemini")))
     IN IF ~NeedsAuthUpdate(st)
          THEN startup' = [st EXCEPT !.stage = "early"]
        ELSE IF detected = "claude" /\ st.CLAUDE_API_KEY
          THEN startup' = [st EXCEPT !.stage = "early", !.selectedAuthType = USE_CLAUDE]
        ELSE IF detected = "gemini" /\ st.GEMINI_API_KEY
          THEN startup' = [st EXCEPT !.stage = "early", !.selectedAuthType = USE_GEMINI]
        ELSE IF detected = "claude"
          THEN IF st.flag # ""
                 THEN startup' = [st EXCEPT !.stage = "exited",
                                            !.error = ExplicitClaudeWithoutKey]
                 ELSE startup' = [st EXCEPT !.stage = "early"]
        ELSE startup' = [st EXCEPT !.stage = "early",
                                   !.selectedAuthType = LOGIN_WITH_GOOGLE]
  /\ StartupFrame

\* main: const config = await loadCliConfig(settings.merged, extensions, sessionId)
LoadConfig ==
  /\ startup.stage = "early"
  /\ LET loaded == LoadCliConfig(startup)
     IN startup' = [startup EXCEPT
                      !.stage = IF loaded.error # "" THEN "failed" ELSE "loaded",
                      !.selectedAuthType = loaded.selectedAuthType,
                      !.configProvider = loaded.provider,
                      !.authType = loaded.authType,
                      !.error = loaded.error]
  /\ StartupFrame

\* main: "set default fallback to appropriate API key based on provider"
DefaultAuthType ==
  /\ startup.stage = "loaded"
  /\ LET st == startup
     IN IF st.selectedAuthType # ""
          THEN startup' = [st EXCEPT !.stage = "ready"]
        ELSE IF st.configProvider = "claude" /\ st.CLAUDE_API_KEY
          THEN startup' = [st EXCEPT !.stage = "ready", !.selectedAuthType = USE_CLAUDE,
                                     !.refreshed = USE_CLAUDE]
        ELSE IF st.configProvider = "gemini" /\ st.GEMINI_API_KEY
          THEN startup' = [st EXCEPT !.stage = "ready", !.selectedAuthType = USE_GEMINI]
        ELSE startup' = [st EXCEPT !.stage = "ready"]
  /\ StartupFrame

\* main on a terminal without a question: render(<AppWrapper config settings />)
RenderInteractive ==
  /\ startup.stage = "ready"
  /\ startup' = [startup EXCEPT !.stage = "interactive"]
  /\ StartupFrame

\* main with input: loadNonInteractiveConfig, which loads the configuration
\* again from a copy of the settings unless the approval mode is YOLO, then
\* validateNonInterActiveAuth(settings.merged.selectedAuthType, finalConfig)
RunNonInteractive ==
  /\ startup.stage = "ready"
  /\ \E yolo \in BOOLEAN :
       LET st == startup
           loaded == LoadCliConfig(st)
           finalProvider == IF yolo THEN st.configProvider ELSE loaded.provider
           finalAuthType == IF yolo THEN st.authType ELSE loaded.authType
           selectedAuthType ==
             IF st.selectedAuthType # "" THEN st.selectedAuthType
             ELSE IF finalProvider = "claude" /\ st.CLAUDE_API_KEY THEN USE_CLAUDE
             ELSE IF st.GEMINI_API_KEY THEN USE_GEMINI
             ELSE ""
           err == ValidateAuthMethod(st, selectedAuthType)
       IN IF ~yolo /\ loaded.error # ""
            THEN startup' = [st EXCEPT !.stage = "failed", !.error = loaded.error]
          ELSE IF selectedAuthType = ""
            THEN startup' = [st EXCEPT !.stage = "exited", !.error = NoAuthMethod]
          ELSE IF err # ""
            THEN startup' = [st EXCEPT !.stage = "exited", !.error = err]
          ELSE startup' = [st EXCEPT !.stage = "noninteractive",
                                     !.configProvider = finalProvider,
                                     !.authType = finalAuthType,
                                     !.refreshed = selectedAuthType]
  /\ StartupFrame

NextStartup ==
  \/ EarlyAuthConfig
  \/ LoadConfig
  \/ DefaultAuthType
  \/ RenderInteractive
  \/ RunNonInteractive

SpecStartup == InitStartup /\ [][NextStartup]_vars


(* ------------------------------- apiLogger ----------------------------- *)
\* values of GEMINI_LOG_LEVEL, "" for unset
EnvLevels == {"", "NONE", "ERROR", "BASIC", "DETAILED", "VERBOSE", "none", "basic", "debug"}

\* String.prototype.toUpperCase on those values
ToUpperCase(s) ==
  CASE s = "none" -> "NONE"
    [] s = "basic" -> "BASIC"
    [] s = "debug" -> "DEBUG"
    [] OTHER -> s

\* the switch of the constructor
ConstructedLevel(env) ==
  LET envLevel == ToUpperCase(env)
  IN CASE envLevel = "NONE" -> NONE
       [] envLevel = "ERROR" -> ERROR
       [] envLevel = "BASIC" -> BASIC
       [] envLevel = "DETAILED" -> DETAILED
       [] envLevel = "VERBOSE" -> VERBOSE
       [] OTHER -> BASIC

ShouldLog(level) == logger.logLevel >= level

\* the markers of the two providers
LogProviders == {"GEMINI", "CLAUDE"}

\* one line on the console: console.log or console.error, what it announces
\* and how much of the data it carries
LogLine(console, marker, what, detail) ==
  [console |-> console, marker |-> marker, what |-> what, detail |-> detail]

\* the logger after a log call that wrote these lines
Logged(lines) ==
  [logger EXCEPT !.lines = logger.lines \o lines, !.logCalls = logger.logCalls + 1]

\* the module-level new ApiLogger() under each value of GEMINI_LOG_LEVEL
InitLog ==
  /\ InitSession
  /\ provider = "claude"
  /\ model = DEFAULT_CLAUDE_MODEL
  /\ backend = "any"
  /\ cvContents = << >>
  /\ startup = NoStartup
  /\ \E env \in EnvLevels : logger = ApiLogger(env, ConstructedLevel(env), << >>, 0)
  /\ mapped = NoMapping
  /\ nonInteractive = NotRunning
  /\ turnLoop = NoTurnLoop
  /\ claudeChat = NoClaudeChat

LogFrame == UNCHANGED <<sessionVars, mapped, nonInteractive, turnLoop, claudeChat>>

\* logGeminiRequest, logGeminiResponse, logGeminiStreamRequest and their Claude
\* counterparts
LogExchange ==
  /\ logger.logCalls < MaxLogCalls
  /\ \E marker \in LogProviders, what \in {"REQUEST", "RESPONSE", "STREAM REQUEST"} :
       logger' = Logged(IF ShouldLog(BASIC)
                          THEN <<LogLine("log", marker, what,
                                         IF ShouldLog(DETAILED) THEN "json" ELSE "summary")>>
                          ELSE << >>)
  /\ LogFrame

\* logGeminiStreamChunk, logClaudeStreamChunk
LogStreamChunk ==
  /\ logger.logCalls < MaxLogCalls
  /\ \E marker \in LogProviders :
       logger' = Logged(IF ShouldLog(VERBOSE)
                          THEN <<LogLine("log", marker, "STREAM CHUNK", "json")>>
                        ELSE IF ShouldLog(DETAILED)
                          THEN <<LogLine("log", marker, "STREAM CHUNK", "number")>>
                        ELSE << >>)
  /\ LogFrame

\* logGeminiStreamComplete, logClaudeStreamComplete
LogStreamComplete ==
  /\ logger.logCalls < MaxLogCalls
  /\ \E marker \in LogProviders :
       logger' = Logged(IF ShouldLog(BASIC)
                          THEN <<LogLine("log", marker, "STREAM COMPLETED", "number")>>
                          ELSE << >>)
  /\ LogFrame

\* logGeminiError, logClaudeError
LogError ==
  /\ logger.logCalls < MaxLogCalls
  /\ \E marker \in LogProviders :
       logger' = Logged(IF ShouldLog(ERROR)
                          THEN <<LogLine("error", marker, "API ERROR", "json")>>
                          ELSE << >>)
  /\ LogFrame

NextLog ==
  \/ LogExchange
  \/ LogStreamChunk
  \/ LogStreamComplete
  \/ LogError

SpecLog == InitLog /\ [][NextLog]_vars


(* ------------------------------ mapModelName --------------------------- *)
\* the two ClaudeContentGenerator sources of the repository
AdapterVariants == {"first", "second"}

ClaudeOpus3 == ModelName("claude-", "3-opus-20240229")
ClaudeSonnet3 == ModelName("claude-", "3-sonnet-20240229")
ClaudeHaiku3 == ModelName("claude-", "3-haiku-20240307")
ClaudeSonnet4 == ModelName("claude-", "sonnet-4-20250514")
ClaudeHaiku35 == ModelName("claude-", "3-5-haiku-20241022")
Gemini25Pro == ModelName("gemini-", "2.5-pro")
Gemini25Flash == ModelName("gemini-", "2.5-flash")
GeminiPro == ModelName("gemini-", "pro")
GeminiFlash == ModelName("gemini-", "flash")

\* models a request may name: the keys and values of both tables, other
\* Claude and Gemini names, names of neither family, and none
RequestModels ==
  {Gemini25Pro, Gemini25Flash, GeminiPro, GeminiFlash,
   ClaudeOpus3, ClaudeSonnet3, ClaudeHaiku3, ClaudeSonnet4, ClaudeHaiku35,
   ModelName("claude-", "opus-4-20250514"), ModelName("gemini-", "1.5-pro"),
   ModelName("Claude-", "3-opus-20240229"), ModelName("gpt-", "4"),
   ModelName("claude", ""), ModelName("", "sonnet"), NoModelName}

\* const modelMap of either source; NoModelName for a name that is no key
ModelMap(variant, geminiModel) ==
  IF variant = "first"
    THEN CASE geminiModel = Gemini25Pro -> ClaudeOpus3
           [] geminiModel = Gemini25Flash -> ClaudeSonnet3
           [] geminiModel = GeminiPro -> ClaudeSonnet3
           [] geminiModel = GeminiFlash -> ClaudeHaiku3
           [] OTHER -> NoModelName
    ELSE CASE geminiModel = Gemini25Pro -> ClaudeSonnet4
           [] geminiModel = Gemini25Flash -> ClaudeHaiku35
           [] geminiModel = GeminiPro -> ClaudeSonnet4
           [] geminiModel = GeminiFlash -> ClaudeHaiku35
           [] OTHER -> NoModelName

\* mapModelName(geminiModel) of either source
MapModelName(variant, geminiModel) ==
  IF variant = "second" /\ geminiModel.prefix = "claude-"
    THEN geminiModel
  ELSE IF ModelMap(variant, geminiModel) # NoModelName
    THEN ModelMap(variant, geminiModel)
  ELSE IF variant = "first" THEN ClaudeSonnet3 ELSE ClaudeSonnet4

\* an adapter of either source about to build a request for one of the models
InitMap ==
  /\ InitSession
  /\ provider = "claude"
  /\ model = DEFAULT_CLAUDE_MODEL
  /\ backend = "any"
  /\ cvContents = << >>
  /\ startup = NoStartup
  /\ logger = NoLogger
  /\ nonInteractive = NotRunning
  /\ turnLoop = NoTurnLoop
  /\ claudeChat = NoClaudeChat
  /\ \E variant \in AdapterVariants, requestModel \in RequestModels :
       mapped = Mapping(variant, requestModel, << >>)

MapFrame == UNCHANGED <<sessionVars, logger, nonInteractive, turnLoop, claudeChat>>

\* convertToClaudeRequest: model: this.mapModelName(request.model || 'claude-3-sonnet-20240229')
RequestModel ==
  /\ mapped.names = << >>
  /\ LET requested == IF mapped.model # NoModelName THEN mapped.model ELSE ClaudeSonnet3
     IN mapped' = [mapped EXCEPT !.names = <<MapModelName(mapped.variant, requested)>>]
  /\ MapFrame

\* mapModelName applied to the name a mapping returned
MapAgain ==
  /\ mapped.names # << >>
  /\ Len(mapped.names) < MaxMappings
  /\ mapped' = [mapped EXCEPT !.names =
                  Append(@, MapModelName(mapped.variant, @[Len(@)]))]
  /\ MapFrame

NextMap ==
  \/ RequestModel
  \/ MapAgain

SpecMap == InitMap /\ [][NextMap]_vars


(* ------------------------ runGeminiNonInteractive ----------------------- *)
\* names of the tools a response may call
CalledNames == {"read_file", "list_directory"}

\* a FunctionCall of a response: id 0 when the backend gave none (fc.id is
\* undefined), else the id the backend gave
FunctionCall(id, name) == [id |-> id, name |-> name]

\* what the backend may put at position k of functionCalls
FunctionCallsAt(k) == {FunctionCall(id, name) : id \in {0, k}, name \in CalledNames}

\* fc.id ?? `${fc.name}-${Date.now()}`
CallIdOf(fc, now) ==
  IF fc.id # 0 THEN [given |-> TRUE, id |-> fc.id, name |-> "", ms |-> 0]
  ELSE [given |-> FALSE, id |-> 0, name |-> fc.name, ms |-> now]

\* what executeToolCall may resolve to: no error, an error whose message
\* includes 'not found in registry', another error
ToolOutcomes == {"ok", "notFound", "error"}

\* runGeminiNonInteractive called with an input
InitNonInteractive ==
  /\ InitSession
  /\ provider = "gemini"
  /\ model = DEFAULT_GEMINI_MODEL
  /\ backend = "any"
  /\ cvContents = << >>
  /\ startup = NoStartup
  /\ logger = NoLogger
  /\ mapped = NoMapping
  /\ nonInteractive = RunGemini("send", <<"input">>, << >>, 0)
  /\ turnLoop = NoTurnLoop
  /\ claudeChat = NoClaudeChat

NonInteractiveFrame == UNCHANGED <<sessionVars, logger, mapped, turnLoop, claudeChat>>

\* the top of the while loop: await chat.sendMessageStream({message: ...})
ChatSendMessageStream ==
  /\ nonInteractive.pc = "send"
  /\ nonInteractive' = [nonInteractive EXCEPT
       !.pc = "stream", !.functionCalls = << >>, !.idx = 0,
       !.toolResponseParts = << >>, !.callIds = << >>, !.outcomes = << >>,
       !.now = 0, !.assigned = FALSE]
  /\ NonInteractiveFrame

\* chat.sendMessageStream or the stream rejects: caught by runNonInteractive,
\* which prints the error and calls process.exit(1)
ChatStreamFails ==
  /\ nonInteractive.pc \in {"send", "stream"}
  /\ nonInteractive' = [nonInteractive EXCEPT !.pc = "failed", !.exitCode = 1]
  /\ NonInteractiveFrame

\* abortController.abort() while the run is going on
AbortNonInteractive ==
  /\ nonInteractive.pc \in {"send", "stream", "tools"}
  /\ ~nonInteractive.aborted
  /\ nonInteractive' = [nonInteractive EXCEPT !.aborted = TRUE]
  /\ NonInteractiveFrame

\* one pass of for await (const resp of responseStream)
StreamResp ==
  /\ nonInteractive.pc = "stream"
  /\ IF nonInteractive.aborted
       THEN nonInteractive' = [nonInteractive EXCEPT !.pc = "cancelled"]
       ELSE \E n \in 0..(MaxFunctionCalls - Len(nonInteractive.functionCalls)) :
              \E fcs \in [1..n -> UNION {FunctionCallsAt(k) : k \in 1..MaxFunctionCalls}] :
                /\ \A j \in 1..n :
                     fcs[j] \in FunctionCallsAt(Len(nonInteractive.functionCalls) + j)
                /\ nonInteractive' = [nonInteractive EXCEPT
                     !.functionCalls = nonInteractive.functionCalls \o fcs]
  /\ NonInteractiveFrame

\* the stream is drained: if (functionCalls.length > 0) ... else return
StreamDrained ==
  /\ nonInteractive.pc = "stream"
  /\ IF Len(nonInteractive.functionCalls) > 0
       THEN nonInteractive' = [nonInteractive EXCEPT !.pc = "tools", !.idx = 1]
       ELSE nonInteractive' = [nonInteractive EXCEPT !.pc = "returned"]
  /\ NonInteractiveFrame

DispatchedGoesOn(run, now, outcome, parts) ==
  LET fc == run.functionCalls[run.idx]
      callId == CallIdOf(fc, now)
      seen == [run EXCEPT !.now = now, !.callIds = Append(@, callId),
                          !.outcomes = Append(@, outcome)]
      pushed == [seen EXCEPT !.toolResponseParts = @ \o parts]
  IN IF run.idx < Len(run.functionCalls)
       THEN [pushed EXCEPT !.idx = run.idx + 1]
     ELSE [pushed EXCEPT !.pc = "send", !.idx = 0, !.assigned = TRUE,
                         !.currentMessages = pushed.toolResponseParts]

\* the run after the tool call at idx ended with this outcome and these
\* responseParts: one pass of for (const fc of functionCalls), and the
\* assignment of currentMessages after the last one
Dispatched(run, now, outcome, parts) ==
  LET fc == run.functionCalls[run.idx]
      callId == CallIdOf(fc, now)
      seen == [run EXCEPT !.now = now, !.callIds = Append(@, callId),
                          !.outcomes = Append(@, outcome)]
      pushed == [seen EXCEPT !.toolResponseParts = @ \o parts]
  IN IF outcome = "error"
       THEN [seen EXCEPT !.pc = "exited", !.exitCode = 1]
     ELSE IF run.idx < Len(run.functionCalls)
       THEN [pushed EXCEPT !.idx = run.idx + 1]
     ELSE [pushed EXCEPT !.pc = "send", !.idx = 0, !.assigned = TRUE,
                         !.currentMessages = pushed.toolResponseParts]

\* callId, await executeToolCall(...), and what follows it in the loop body;
\* a part of the responseParts is written as the position of its function call
ExecuteToolCall ==
  /\ nonInteractive.pc = "tools"
  /\ \E now \in {nonInteractive.now, nonInteractive.now + 1},
        outcome \in ToolOutcomes, hasParts \in BOOLEAN :
       nonInteractive' =
         Dispatched(nonInteractive, now, outcome,
                    IF hasParts THEN <<nonInteractive.idx>> ELSE << >>)
  /\ NonInteractiveFrame

NextNonInteractive ==
  \/ ChatSendMessageStream
  \/ ChatStreamFails
  \/ AbortNonInteractive
  \/ StreamResp
  \/ StreamDrained
  \/ ExecuteToolCall

SpecNonInteractive == InitNonInteractive /\ [][NextNonInteractive]_vars

\* the run is never suspended for ever: every await it reaches settles
SpecNonInteractiveFair ==
  /\ SpecNonInteractive
  /\ WF_vars(ChatSendMessageStream \/ ChatStreamFails \/ StreamResp \/ StreamDrained
               \/ ExecuteToolCall)


(* ------------- sendMessageStream, Gemini path: the turns argument ------- *)
\* values of the turns argument: none, negative, small, at and above MAX_TURNS
TurnsValues == {-2, -1, 0, 1, 2, MAX_TURNS, MAX_TURNS + 1, MAX_TURNS + 50}

\* a caller invokes sendMessageStream(request, signal, turns)
InitTurnLoop ==
  /\ InitSession
  /\ provider = "gemini"
  /\ model = DEFAULT_GEMINI_MODEL
  /\ backend = "any"
  /\ cvContents = << >>
  /\ startup = NoStartup
  /\ logger = NoLogger
  /\ mapped = NoMapping
  /\ nonInteractive = NotRunning
  /\ claudeChat = NoClaudeChat
  /\ \E turns \in TurnsValues : turnLoop = TurnLoop("invoked", turns, 0, 0)

TurnLoopFrame == UNCHANGED <<sessionVars, logger, mapped, nonInteractive, claudeChat>>

\* const boundedTurns = Math.min(turns, this.MAX_TURNS);
\* if (!boundedTurns) return new Turn(...)
BoundTurns ==
  /\ turnLoop.pc = "invoked"
  /\ LET bounded == Min(turnLoop.turns, MAX_TURNS)
     IN turnLoop' = [turnLoop EXCEPT !.boundedTurns = bounded,
                       !.pc = IF bounded = 0 THEN "returned" ELSE "turn"]
  /\ TurnLoopFrame

\* tryCompressChat, turn.run drained, and the test
\* !turn.pendingToolCalls.length && signal && !signal.aborted
RunTurn ==
  /\ turnLoop.pc = "turn"
  /\ turnLoop.turnsRun < MaxTurnsRun
  /\ \E pendingToolCalls \in BOOLEAN, signalAborted \in BOOLEAN :
       turnLoop' = [turnLoop EXCEPT !.turnsRun = @ + 1,
                      !.pc = IF pendingToolCalls \/ signalAborted
                               THEN "returned" ELSE "checkNextSpeaker"]
  /\ TurnLoopFrame

\* checkNextSpeaker and, when it answers 'model',
\* yield* this.sendMessageStream(nextRequest, signal, boundedTurns - 1)
CheckNextSpeaker ==
  /\ turnLoop.pc = "checkNextSpeaker"
  /\ \E next_speaker \in {"model", "user", ""} :
       turnLoop' = IF next_speaker = "model"
                     THEN [turnLoop EXCEPT !.pc = "invoked",
                                           !.turns = turnLoop.boundedTurns - 1]
                     ELSE [turnLoop EXCEPT !.pc = "returned"]
  /\ TurnLoopFrame

NextTurnLoop ==
  \/ BoundTurns
  \/ RunTurn
  \/ CheckNextSpeaker

SpecTurnLoop == InitTurnLoop /\ [][NextTurnLoop]_vars


(* ------------------------------ ClaudeChat ------------------------------ *)
\* the histories a ClaudeChat is constructed with
ChatHistories == {<< >>, <<UserContent(<<"h", "i">>), Content("model", <<TextPart(<<"o", "k">>)>>)>>}

\* params.message of a call
ChatMessages == {<<"h", "i">>, <<"g", "o">>}

\* candidates[0].content of one response of the content generator; Null when
\* the response has none
ChatResponses == {Content("model", <<TextPart(<<"o", "k">>)>>), Content("model", <<TextPart(<<"a">>)>>), Null}

\* the responses of one stream of the content generator
ChatReplies ==
  {<< >>} \cup {<<a>> : a \in ChatResponses}
          \cup {<<a, b>> : a \in ChatResponses, b \in ChatResponses}

\* the history sendMessage leaves: the user message, then the response's
\* content when it has one
SendMessageHistory(history, message, response) ==
  (history \o <<UserContent(message)>>) \o (IF response # Null THEN <<response>> ELSE << >>)

InitChat ==
  /\ InitSession
  /\ provider = "claude"
  /\ model = DEFAULT_CLAUDE_MODEL
  /\ backend = "any"
  /\ cvContents = << >>
  /\ startup = NoStartup
  /\ logger = NoLogger
  /\ mapped = NoMapping
  /\ nonInteractive = NotRunning
  /\ turnLoop = NoTurnLoop
  /\ \E history \in ChatHistories :
       claudeChat = ClaudeChat("idle", history, "", EmptyText, << >>, 0, Null)

ChatFrame == UNCHANGED <<sessionVars, logger, mapped, nonInteractive, turnLoop>>

\* ClaudeChat.sendMessage when generateContent resolves
ClaudeChatSendMessage ==
  /\ claudeChat.pc = "idle"
  /\ \E message \in ChatMessages, response \in ChatResponses :
       claudeChat' = [claudeChat EXCEPT
                        !.pc = "returned", !.via = "sendMessage", !.message = message,
                        !.reply = <<response>>,
                        !.history = SendMessageHistory(claudeChat.history, message, response)]
  /\ ChatFrame

\* sendMessage or sendMessageStream when the content generator rejects: the
\* await throws before any addHistory
GenerateRejects ==
  /\ claudeChat.pc = "idle"
  /\ \E message \in ChatMessages, via \in {"sendMessage", "sendMessageStream"} :
       claudeChat' = [claudeChat EXCEPT !.pc = "threw", !.via = via, !.message = message]
  /\ ChatFrame

\* ClaudeChat.sendMessageStream up to its return of wrappedStream()
ClaudeChatSendMessageStream ==
  /\ claudeChat.pc = "idle"
  /\ \E message \in ChatMessages, reply \in ChatReplies :
       claudeChat' = [claudeChat EXCEPT
                        !.pc = "streaming", !.via = "sendMessageStream",
                        !.message = message, !.reply = reply,
                        !.history = claudeChat.history \o <<UserContent(message)>>]
  /\ ChatFrame

\* one round of the for-await of wrappedStream
WrappedStreamYield ==
  /\ claudeChat.pc = "streaming"
  /\ claudeChat.streamed < Len(claudeChat.reply)
  /\ LET response == claudeChat.reply[claudeChat.streamed + 1]
     IN claudeChat' = [claudeChat EXCEPT
                         !.streamed = @ + 1,
                         !.modelResponse =
                            IF response # Null /\ claudeChat.modelResponse = Null
                              THEN response ELSE @]
  /\ ChatFrame

\* wrappedStream after its loop: the body of `if (modelResponse)` holds
\* comments only
WrappedStreamDrained ==
  /\ claudeChat.pc = "streaming"
  /\ claudeChat.streamed = Len(claudeChat.reply)
  /\ claudeChat' = [claudeChat EXCEPT !.pc = "drained"]
  /\ ChatFrame

NextChat ==
  \/ ClaudeChatSendMessage
  \/ GenerateRejects
  \/ ClaudeChatSendMessageStream
  \/ WrappedStreamYield
  \/ WrappedStreamDrained

SpecChat == InitChat /\ [][NextChat]_vars


(* ------------------------------ properties ----------------------------- *)
EventsOfType(evs, t) == {k \in 1..Len(evs) : evs[k].type = t}

IdsOfType(evs, t) ==
  LET IsT(e) == e.type = t
      sel == SelectSeq(evs, IsT)
  IN [k \in 1..Len(sel) |-> sel[k].callId]

PartsOfKind(content, kind) ==
  LET IsK(p) == p.kind = kind
  IN SelectSeq(content.parts, IsK)

PartIds(parts) == [k \in 1..Len(parts) |-> parts[k].id]

\* C1: one call on the Claude provider makes at most 10 backend streaming calls
\* and dispatches tools in at most 10 iterations; against the backend that asks
\* for a tool in every response, a call that ends without error or cancellation
\* has made exactly 10 backend calls and 10 rounds of tool dispatch.
C1_TurnCeiling ==
  /\ backendCalls <= 10
  /\ rounds <= 10
  /\ (/\ pc = "idle"
      /\ calls > 0
      /\ EventsOfType(events, "Error") = {}
      /\ EventsOfType(events, "UserCancelled") = {})
     => (backendCalls = 10 /\ rounds = 10 /\ Len(dispatched) = 10)

C1_Witness ==
  /\ pc = "idle"
  /\ backendCalls = 10
  /\ rounds = 10
  /\ Len(dispatched) = 10
  /\ EventsOfType(events, "Error") = {}

\* C2: when a call has returned, every ToolCallRequest event it emitted is
\* matched by exactly one ToolCallResponse event with the same callId.
C2_EveryRequestAnswered ==
  pc = "idle" =>
    \A k \in EventsOfType(events, "ToolCallRequest") :
      Cardinality({j \in EventsOfType(events, "ToolCallResponse") :
                     events[j].callId = events[k].callId})
        = Cardinality({j \in EventsOfType(events, "ToolCallRequest") :
                         events[j].callId = events[k].callId})

C4_CancelMidStream ==
  observed =>
    /\ Cardinality(EventsOfType(events, "UserCancelled")) = 1
    /\ events[Len(events)].type = "UserCancelled"
    /\ pc = "idle"
    /\ backendCalls = atObserved[1]
    /\ Len(dispatched) = atObserved[2]

C4_Witness ==
  /\ observed
  /\ EventsOfType(events, "ToolCallRequest") # {}
  /\ Cardinality(EventsOfType(events, "ToolCallResponse"))
       < Cardinality(EventsOfType(events, "ToolCallRequest"))


\* C5: no tool is executed once the signal is set: every tool.execute call of a
\* call was started while the signal was not aborted.
C5_NoDispatchAfterAbort ==
  \A k \in 1..Len(dispatched) : ~dispatched[k].aborted

\* tool.execute calls and events of the current iteration
IterationStarted == SubSeq(dispatched, atStream[1] + 1, Len(dispatched))
IterationEvents == SubSeq(events, atStream[2] + 1, Len(events))

IterationResponses ==
  LET IsResponse(e) == e.type = "ToolCallResponse"
  IN SelectSeq(IterationEvents, IsResponse)

RegisteredIds(tcs) ==
  LET IsRegistered(tc) == tc.name \in Registry
  IN PartIds(SelectSeq(tcs, IsRegistered))

\* C6: a failed tool call (the tool throws, or the registry does not hold it)
\* does not end the turn: no Error event carries a tool's error; when the tool
\* loop of an iteration is over every collected call has its functionResponse
\* part, the failed ones an error part, every registered tool was executed, the
\* parts are the transcript's last message and the loop is set to continue; and
\* the request of a running stream was built from the transcript as it is.
C6_ToolErrorsIsolated ==
  /\ \A k \in EventsOfType(events, "Error") :
       events[k].message \notin {ToolFailedMessage, ToolNotFoundMessage}
  /\ (pc = "loop" /\ Len(toolCalls) > 0) =>
       /\ Len(toolResponseParts) = Len(toolCalls)
       /\ \A k \in 1..Len(toolCalls) :
            /\ toolResponseParts[k].kind = "functionResponse"
            /\ toolResponseParts[k].id = toolCalls[k].id
            /\ toolCalls[k].name \notin Registry => toolResponseParts[k].err
            /\ Len(IterationResponses) = Len(toolCalls)
            /\ IterationResponses[k].callId = toolCalls[k].id
            /\ toolResponseParts[k].err <=> IterationResponses[k].message # ""
       /\ PartIds(IterationStarted) = RegisteredIds(toolCalls)
       /\ claudeHistory[Len(claudeHistory)] = Content("user", toolResponseParts)
       /\ continueConversation
  /\ pc = "stream" =>
       \E gens \in Generators(claudeHistory) :
         lastRequest = ConvertToClaudeRequest(claudeHistory, gens)

\* a stream is being read whose request ends with the results of two calls,
\* the first failed, the second executed
C6_Witness ==
  /\ pc = "stream"
  /\ LET last == claudeHistory[Len(claudeHistory)]
     IN /\ last.role = "user"
        /\ Len(last.parts) = 2
        /\ last.parts[1].kind = "functionResponse" /\ last.parts[1].err
        /\ last.parts[2].kind = "functionResponse" /\ ~last.parts[2].err
  /\ lastRequest[Len(lastRequest)].content[1].type = "tool_result"

\* C7: the tool calls of an iteration are dispatched one at a time in the order
\* of their ToolCallRequest events: nothing is started or answered while the
\* stream is read, call k+1 is started only when call k has its response, and
\* responses and functionResponse parts come in the order of the requests.
C7_SequentialInOrder ==
  pc # "idle" =>
    LET reqIds == IdsOfType(IterationEvents, "ToolCallRequest")
        respIds == IdsOfType(IterationEvents, "ToolCallResponse")
        answered == Len(respIds)
        reached == answered + (IF pc = "executing" THEN 1 ELSE 0)
    IN /\ reqIds = PartIds(toolCalls)
       /\ pc = "stream" => (IterationStarted = << >> /\ respIds = << >>)
       /\ answered <= Len(reqIds)
       /\ respIds = SubSeq(reqIds, 1, answered)
       /\ PartIds(toolResponseParts) = respIds
       /\ reached <= Len(toolCalls)
       /\ PartIds(IterationStarted) = RegisteredIds(SubSeq(toolCalls, 1, reached))

\* two calls with different ids were executed and answered in one iteration
C7_Witness ==
  /\ pc = "loop"
  /\ Len(toolCalls) = 2
  /\ toolCalls[1].id # toolCalls[2].id
  /\ Len(IterationStarted) = 2
  /\ Len(toolResponseParts) = 2

HasKind(content, kind) == PartsOfKind(content, kind) # << >>

\* C8: a transcript message with functionResponse parts is a user-role message
\* of functionResponse parts only, placed immediately after the model-role
\* message whose functionCall parts it answers one for one and in order; and a
\* model-role message with functionCall parts is followed by that message as
\* soon as the tool loop of its iteration is over.
C8_ResultsFollowCalls ==
  /\ \A i \in 1..Len(claudeHistory) :
       HasKind(claudeHistory[i], "functionResponse") =>
         /\ claudeHistory[i].role = "user"
         /\ PartsOfKind(claudeHistory[i], "functionResponse") = claudeHistory[i].parts
         /\ i > 1
         /\ claudeHistory[i - 1].role = "model"
         /\ PartIds(PartsOfKind(claudeHistory[i - 1], "functionCall"))
              = PartIds(claudeHistory[i].parts)
  /\ \A i \in 1..Len(claudeHistory) :
       HasKind(claudeHistory[i], "functionCall") =>
         /\ claudeHistory[i].role = "model"
         /\ IF i = Len(claudeHistory)
              THEN pc \in {"dispatch", "executing"}
              ELSE HasKind(claudeHistory[i + 1], "functionResponse")

C8_Witness ==
  /\ pc = "loop"
  /\ Len(toolCalls) = 2
  /\ Len(claudeHistory) > 1
  /\ Len(claudeHistory[Len(claudeHistory)].parts) = 2
  /\ HasKind(claudeHistory[Len(claudeHistory)], "functionResponse")

\* C9: the message list built for a backend call has no two adjacent messages
\* of the same role.
C9_RolesAlternate ==
  \A k \in 1..(Len(lastRequest) - 1) : lastRequest[k].role # lastRequest[k + 1].role

IterationRequests ==
  LET IsRequest(e) == e.type = "ToolCallRequest"
  IN SelectSeq(IterationEvents, IsRequest)

\* C11: once the stream of an iteration is drained, every ToolCallRequest event
\* of the iteration carries the complete arguments of its tool call: what the
\* backend sent in the tool_use start chunk followed by the input_json_delta
\* chunks of that block.
C11_CompleteArgs ==
  pc \in {"dispatch", "executing"} =>
    /\ Len(IterationRequests) = Len(sentArgs)
    /\ \A k \in 1..Len(IterationRequests) : IterationRequests[k].args = sentArgs[k]

\* the tool_use and tool_result ids of a request, in order
RECURSIVE BlockIds(_)
BlockIds(messages) ==
  IF messages = << >> THEN << >>
  ELSE LET IsToolBlock(b) == b.type \in {"tool_use", "tool_result"}
           blocks == SelectSeq(Head(messages).content, IsToolBlock)
       IN [k \in 1..Len(blocks) |-> blocks[k].id] \o BlockIds(Tail(messages))

\* C12: two conversions of the same transcript give every tool_use block and
\* every tool_result block the same id.
C12_DeterministicIds == BlockIds(cvFirst) = BlockIds(cvSecond)

\* C13: tryCompressChat on a chat whose curated history is empty returns null
\* with no countTokens call, no summarization call and the chat unchanged,
\* with and without force, called directly or by sendMessageStream.
C13_EmptyNeverCompressed ==
  [][(hasChat /\ chat = << >> /\ (TryCompressChat \/ SendGeminiMessageStream)) =>
       /\ pc' \in {"idle", "turn"}
       /\ compressed' = NoCompression
       /\ thrown' = ""
       /\ countTokensCalls' = 0
       /\ summarizeCalls' = 0
       /\ ~replaced'
       /\ chat' = chat]_vars

\* the only call so far, a forced tryCompressChat, returned null at the empty check
C13_Witness ==
  /\ pc = "idle"
  /\ origin = "direct"
  /\ force
  /\ hasChat
  /\ chat = << >>
  /\ calls = 1
  /\ fallback = NoFallback
  /\ thrown = ""
  /\ countTokensCalls = 0
  /\ compressed = NoCompression

\* C14: without force, tryCompressChat goes on to the summarization call only
\* when the token estimate exceeds 0.7 times the model's context limit.
C14_OnlyAboveThreshold ==
  (pc = "summarizing" /\ ~force) =>
    originalTokenCount * THRESHOLD_DEN > THRESHOLD_NUM * TokenLimit(model)

\* C15: right after compression replaced the chat, the chat holds exactly two
\* messages: the environment preamble, then the snapshot as a model message.
C15_TwoMessages ==
  pc = "recounting" =>
    /\ Len(chat) = 2
    /\ chat[1] = Content("user", <<TextPart(EnvText)>>)
    /\ chat[2].role = "model"
    /\ \E summary \in Summaries : chat[2].parts = <<TextPart(summary)>>

\* C16: when the first turn of a sendMessageStream call is about to run, the
\* pre-turn compression has replaced the chat exactly if a ChatCompressed
\* event carrying the two counts is the one event yielded so far.
C16_EventIffReplaced ==
  (pc = "turn" /\ continuations = 0) =>
    (replaced <=>
       /\ Len(events) = 1
       /\ events[1].type = "ChatCompressed"
       /\ events[1].info.some
       /\ events[1].info.originalTokenCount = originalTokenCount)

\* C17: a countTokens or summarization call failing in the pre-turn
\* compression of sendMessageStream never ends the call with that failure:
\* the failure does not reach the caller.
C17_FailureNotFatal ==
  origin = "turn" => thrown \notin {CountTokensFailed, SendMessageFailed}

\* C18: every ChatCompressionInfo returned after a summary no longer than the
\* text of the history it summarizes has newTokenCount <= originalTokenCount.
C18_MonotoneReduction ==
  (compressed.some /\ summarized[2] <= summarized[1]) =>
    compressed.newTokenCount <= compressed.originalTokenCount

\* C19: on the Claude provider a transcript whose estimate is over the
\* threshold is never sent to the backend without a token count and a
\* summarization call having been made in that sendMessageStream call.
C19_ClaudeCompressed ==
  (/\ provider = "claude"
   /\ pc = "stream"
   /\ CountTokens(claudeHistory) * THRESHOLD_DEN > THRESHOLD_NUM * TokenLimit(model)) =>
    (countTokensCalls > 0 /\ summarizeCalls > 0)

\* C20: after handleFlashFallback the configured model is the flash model and
\* the flash model was returned exactly when the auth type was the Google
\* login, the model was not the flash model and the handler approved; in
\* every other case the configured model is unchanged and null was returned.
C20_FallbackOnlyWhenApproved ==
  fallback # NoFallback =>
    IF /\ fallback.authType = LOGIN_WITH_GOOGLE
       /\ fallback.before # DEFAULT_GEMINI_FLASH_MODEL
       /\ fallback.handler = "accept"
      THEN fallback.result = DEFAULT_GEMINI_FLASH_MODEL /\ model = DEFAULT_GEMINI_FLASH_MODEL
      ELSE fallback.result = "" /\ model = fallback.before

\* a fallback the handler approved has switched the model from pro to flash
C20_Witness ==
  /\ fallback # NoFallback
  /\ fallback.handler = "accept"
  /\ fallback.before = DEFAULT_GEMINI_MODEL
  /\ fallback.result = DEFAULT_GEMINI_FLASH_MODEL
  /\ model = DEFAULT_GEMINI_FLASH_MODEL

\* C21: an Error event for a rate-limited backend call of the first iteration
\* is yielded only after the backend call was made again.
C21_RateLimitRetried ==
  (/\ Len(events) = 1
   /\ events[1].type = "Error"
   /\ events[1].message = RateLimitMessage) =>
    backendCalls >= 2

RECURSIVE EventsText(_)
EventsText(evs) ==
  IF evs = << >> THEN EmptyText ELSE Head(evs).text \o EventsText(Tail(evs))

\* the first stream of a call has been drained, it brought no tool call and
\* was not seen aborted: the loop is about to exit
TextOnlyReplyEnded ==
  /\ pc = "loop"
  /\ ~continueConversation
  /\ rounds = 0
  /\ toolCalls = << >>
  /\ ~observed

\* C23: each text the stream brings is yielded at once as a Content event; a
\* reply that was text only leaves Content events only, whose texts in order
\* make up the reply's text, after one backend call, and the loop then exits
\* with no further event or backend call.
C23_TextOnlyReply ==
  /\ [](TextOnlyReplyEnded =>
          /\ backendCalls = 1
          /\ \A k \in 1..Len(events) :
               events[k].type = "Content" /\ events[k].text # EmptyText
          /\ EventsText(events) = fullResponseText)
  /\ [][/\ (/\ pc = "stream"
             /\ pc' = "stream"
             /\ ~aborted
             /\ toolCalls' = toolCalls
             /\ fullResponseText' # fullResponseText) =>
              events' = Append(events,
                               Event("Content", "",
                                     SubSeq(fullResponseText', Len(fullResponseText) + 1,
                                            Len(fullResponseText')), ""))
        /\ (TextOnlyReplyEnded /\ pc' # pc) =>
              /\ pc' = "idle"
              /\ events' = events
              /\ backendCalls' = backendCalls]_vars

\* a text-only reply of two text chunks has been drained
C23_Witness ==
  /\ TextOnlyReplyEnded
  /\ Len(events) = 2
  /\ fullResponseText = <<"o", "k", "o", "k">>

\* the second stream of a call, the text reply to the tool result, has been
\* drained
ToolThenTextEnded ==
  /\ pc = "loop"
  /\ ~continueConversation
  /\ backendCalls = 2

\* C24: when an input was answered with one tool call that succeeded and then
\* with text, the events are ToolCallRequest, ToolCallResponse, Content, and
\* the transcript ends with the user input, a model message holding the
\* functionCall part, a user message holding the functionResponse part of
\* the same id, and a model message holding the text; in the first call of a
\* session nothing else was added.
C24_ToolThenText ==
  ToolThenTextEnded =>
    LET n == Len(claudeHistory)
    IN /\ Len(events) = 3
       /\ events[1].type = "ToolCallRequest"
       /\ events[2].type = "ToolCallResponse"
       /\ events[2].callId = events[1].callId
       /\ events[2].message = ""
       /\ events[3].type = "Content"
       /\ events[3].text # EmptyText
       /\ n >= 4
       /\ \E t \in UserTexts : claudeHistory[n - 3] = UserContent(t)
       /\ \E name \in Registry :
            /\ claudeHistory[n - 2] =
                 Content("model", <<FunctionCallPart(name, events[1].callId)>>)
            /\ claudeHistory[n - 1] =
                 Content("user", <<FunctionResponsePart(name, events[1].callId, FALSE)>>)
       /\ claudeHistory[n] = Content("model", <<TextPart(events[3].text)>>)
       /\ calls = 1 => SubSeq(claudeHistory, 1, n - 4) \in {<< >>, InitialClaudeHistory}

\* a first call answered with a tool call and then text, on a seeded transcript
C24_Witness ==
  /\ ToolThenTextEnded
  /\ calls = 1
  /\ Len(claudeHistory) = 6
  /\ Len(dispatched) = 1

\* C25: a stream that ends having brought no text and no tool call yields no
\* event and ends the loop: the call then returns without another backend
\* call, without an Error event and without an exception.
C25_EmptyTurnEndsCleanly ==
  [][/\ (/\ pc = "stream"
         /\ pc' = "loop"
         /\ fullResponseText = EmptyText
         /\ toolCalls = << >>) =>
          /\ ~continueConversation'
          /\ events' = events
          /\ backendCalls' = backendCalls
     /\ (/\ pc = "loop"
         /\ ~continueConversation
         /\ fullResponseText = EmptyText
         /\ toolCalls = << >>
         /\ pc' # pc) =>
          /\ pc' = "idle"
          /\ events' = events
          /\ backendCalls' = backendCalls
          /\ thrown' = ""]_vars

\* the only stream of a call was drained and had brought nothing
C25_Witness ==
  /\ pc = "loop"
  /\ ~continueConversation
  /\ backendCalls = 1
  /\ rounds = 0
  /\ fullResponseText = EmptyText
  /\ toolCalls = << >>
  /\ events = << >>
  /\ ~observed

\* the number of characters of the text parts of a transcript
RECURSIVE TextLength(_)
TextLength(contents) ==
  IF contents = << >> THEN 0
  ELSE LET parts == Head(contents).parts
           IsText(p) == p.kind = "text"
           texts == SelectSeq(parts, IsText)
           RECURSIVE Sum(_)
           Sum(ps) == IF ps = << >> THEN 0 ELSE Len(Head(ps).text) + Sum(Tail(ps))
       IN Sum(texts) + TextLength(Tail(contents))

\* C26: countTokens returns 100 for every transcript whose text parts total
\* 400 characters, however the text is split over parts and messages.
C26_FourHundredIsHundred ==
  (cvTokens # UndefinedCount /\ TextLength(cvContents) = 400) => cvTokens = 100

\* C27: generateEmbedding on the Claude backend fails for every list of
\* texts, and no embedding call returns vectors.
C27_EmbeddingAlwaysFails ==
  embedded.op # "" => (~embedded.returned /\ embedded.thrown # "")

\* C27 (amended): no embedding call on the Claude backend returns vectors;
\* embedContent throws the unsupported-operation error for every request;
\* generateEmbedding returns the empty list for an empty list of texts and
\* fails for every other list, with the unsupported-operation error once the
\* client is initialized.
C27_EmbeddingFailsUnlessEmpty ==
  embedded.op # "" =>
    /\ embedded.vectors = << >>
    /\ embedded.op = "embedContent" =>
         ~embedded.returned /\ embedded.thrown = UnsupportedEmbeddings
    /\ embedded.op = "generateEmbedding" =>
         IF embedded.texts = << >>
           THEN embedded.returned /\ embedded.thrown = ""
           ELSE /\ ~embedded.returned
                /\ embedded.thrown =
                     (IF embedded.initialized THEN UnsupportedEmbeddings ELSE NotInitialized)

\* generateEmbedding was called with two texts on an initialized client
C27_Witness ==
  /\ embedded.op = "generateEmbedding"
  /\ Len(embedded.texts) = 2
  /\ embedded.initialized
  /\ embedded.thrown = UnsupportedEmbeddings

\* the configuration has been loaded, or loading it has failed
ConfigurationLoadingEnded == startup.stage \notin {"none", "main", "early"}

\* C28: when Claude is the requested provider through AI_PROVIDER or the
\* settings file, without a --provider flag, and CLAUDE_API_KEY is not set,
\* loading the configuration does not fail: it ends with provider gemini, with
\* Gemini API-key auth when GEMINI_API_KEY is set and Google OAuth otherwise
C28_ClaudeWithoutKeyFallsBack ==
  (/\ ConfigurationLoadingEnded
   /\ startup.flag = ""
   /\ Or(startup.settingsProvider, startup.AI_PROVIDER) = "claude"
   /\ ~startup.CLAUDE_API_KEY)
  => /\ startup.stage # "failed"
     /\ startup.configProvider = "gemini"
     /\ startup.authType =
          (IF startup.GEMINI_API_KEY THEN USE_GEMINI ELSE LOGIN_WITH_GOOGLE)

\* C29: with CLAUDE_API_KEY set, GEMINI_API_KEY unset and no provider given by
\* flag, settings or AI_PROVIDER, the loaded configuration has provider claude
\* and the Claude API-key auth type
C29_OnlyClaudeKeySelectsClaude ==
  (/\ ConfigurationLoadingEnded
   /\ startup.flag = ""
   /\ startup.settingsProvider = ""
   /\ startup.AI_PROVIDER = ""
   /\ startup.CLAUDE_API_KEY
   /\ ~startup.GEMINI_API_KEY)
  => /\ startup.configProvider = "claude"
     /\ startup.authType = USE_CLAUDE

\* C30: whatever the flag, the settings, AI_PROVIDER, the stored auth type and
\* the keys are, a start that reaches the interactive UI or the
\* non-interactive run without CLAUDE_API_KEY has not selected claude-api-key:
\* neither as selectedAuthType of the settings, nor as authType of the Config,
\* nor as the auth type handed to refreshAuth
C30_NoClaudeAuthWithoutKey ==
  (/\ startup.stage \in {"interactive", "noninteractive"}
   /\ ~startup.CLAUDE_API_KEY)
  => /\ startup.selectedAuthType # USE_CLAUDE
     /\ startup.authType # USE_CLAUDE
     /\ startup.refreshed # USE_CLAUDE

\* C31: API logging is off by default: while GEMINI_LOG_LEVEL is unset, no log
\* call of the API logger writes a line
C31_LoggingOffByDefault ==
  logger.env = "" => logger.lines = << >>

\* C32: a request model that is already a Claude model is sent unchanged, and
\* mapping the result of a mapping returns the same name
C32_ClaudeNameUnchanged ==
  /\ (mapped.names # << >> /\ mapped.model.prefix = "claude-")
       => mapped.names[1] = mapped.model
  /\ \A k \in 1..Len(mapped.names) - 1 : mapped.names[k + 1] = mapped.names[k]

\* runGeminiNonInteractive is over: it returned or the process exited
NonInteractiveOver ==
  nonInteractive.pc \in {"returned", "cancelled", "failed", "exited"}

\* a tool call of the response being handled did not succeed
SomeToolFailed ==
  \E k \in 1..Len(nonInteractive.outcomes) : nonInteractive.outcomes[k] # "ok"

\* C33: runGeminiNonInteractive terminates for any backend, one that asks
\* for a tool call in every response and whose tools always succeed included:
\* a run in which no tool call ever fails is over after finitely many steps
C33_NonInteractiveTerminates == <>(NonInteractiveOver \/ SomeToolFailed)

\* C36: the call ids generated for function calls that came without an id are
\* pairwise distinct, also for two calls of the same tool within one millisecond
C36_GeneratedIdsDistinct ==
  \A i, j \in 1..Len(nonInteractive.callIds) :
    (/\ i < j
     /\ ~nonInteractive.callIds[i].given
     /\ ~nonInteractive.callIds[j].given)
    => nonInteractive.callIds[i] # nonInteractive.callIds[j]

\* C38: in runGeminiNonInteractive a tool call that ends with an error other
\* than 'not found in registry' is the last one dispatched: the process has
\* exited with code 1, the later function calls of the response were not
\* dispatched and the results of the response did not become the next
\* message; a 'not found in registry' error, like a success, never ends the
\* process
C38_ToolErrorExits ==
  /\ [](\A k \in 1..Len(nonInteractive.outcomes) :
          nonInteractive.outcomes[k] = "error"
            => /\ k = Len(nonInteractive.outcomes)
               /\ nonInteractive.pc = "exited"
               /\ nonInteractive.exitCode = 1
               /\ ~nonInteractive.assigned
               /\ Len(nonInteractive.callIds) = k)
  /\ [](nonInteractive.pc = "exited"
          => /\ nonInteractive.outcomes # << >>
             /\ nonInteractive.outcomes[Len(nonInteractive.outcomes)] = "error")
  /\ [][nonInteractive.pc = "exited" => nonInteractive' = nonInteractive]_vars

\* a response asked for two tools, the first was not found, the second
\* failed otherwise: the run went on after the first and exited at the second
C38_Witness ==
  /\ nonInteractive.pc = "exited"
  /\ nonInteractive.outcomes = <<"notFound", "error">>
  /\ Len(nonInteractive.functionCalls) = 2

\* C34: whatever integer the turns argument is, a Gemini sendMessageStream
\* call runs at most MAX_TURNS turns over all its recursive continuations
C34_AtMostMaxTurns == turnLoop.turnsRun <= MAX_TURNS

\* every message that carries a function response comes right after a model
\* message that carries a function call of the same name
ResultsFollowCalls(contents) ==
  \A k \in 1..Len(contents) :
    (\E r \in 1..Len(contents[k].parts) : contents[k].parts[r].kind = "functionResponse") =>
      /\ contents[k].role = "user"
      /\ k > 1
      /\ contents[k - 1].role = "model"
      /\ \A r \in 1..Len(contents[k].parts) :
           contents[k].parts[r].kind = "functionResponse" =>
             \E c \in 1..Len(contents[k - 1].parts) :
               /\ contents[k - 1].parts[c].kind = "functionCall"
               /\ contents[k - 1].parts[c].name = contents[k].parts[r].name

\* every tool_result block of the request names a tool_use block of the
\* message right before it, which is an assistant message
ResultsNameUses(messages) ==
  \A k \in 1..Len(messages) :
    \A r \in 1..Len(messages[k].content) :
      messages[k].content[r].type = "tool_result" =>
        /\ k > 1
        /\ messages[k - 1].role = "assistant"
        /\ \E u \in 1..Len(messages[k - 1].content) :
             /\ messages[k - 1].content[u].type = "tool_use"
             /\ messages[k - 1].content[u].id = messages[k].content[r].id

\* C35: for a transcript in which tool results follow their tool calls, each
\* tool_result block of the built request has the id of a tool_use block of
\* the immediately preceding assistant message, function calls stored
\* without an id included.
C35_ResultsNameUses ==
  (cvFirst # << >> /\ ResultsFollowCalls(cvContents)) => ResultsNameUses(cvFirst)

\* C37: once the stream returned by ClaudeChat.sendMessageStream is drained,
\* the history is the one before the call plus the user message and the
\* model's response, the history sendMessage leaves for the same reply.
C37_StreamHistoryAsSendMessage ==
  (claudeChat.pc = "drained" /\ Len(claudeChat.reply) = 1) =>
    claudeChat.history =
      SendMessageHistory(claudeChat.before, claudeChat.message, claudeChat.reply[1])

\* the first backend call of the running call has not come to its end
FirstBackendCall ==
  \/ pc = "loop" /\ backendCalls = 0
  \/ pc = "stream" /\ backendCalls = 1

\* the step is the catch block's: the call ends with one more event, an Error
EndsInError ==
  /\ pc # "idle"
  /\ pc' = "idle"
  /\ Len(events') = Len(events) + 1
  /\ events'[Len(events')].type = "Error"

\* C39: when the first backend call of a Claude turn fails, the transcript
\* after the Error event is the transcript before the call plus exactly the
\* new user message: the call starts by appending the user message, and from
\* there to the Error event of the first backend call nothing is removed and
\* nothing is added.
C39_FailedFirstCallKeepsUserMessage ==
  [][/\ (pc = "idle" /\ pc' = "loop") =>
          \E t \in UserTexts : claudeHistory' = Append(claudeHistory, UserContent(t))
     /\ (FirstBackendCall /\ (FirstBackendCall' \/ EndsInError)) =>
          claudeHistory' = claudeHistory]_vars

\* a first backend call that was rejected: one Error event, and the user
\* message is the last message of the transcript
C39_Witness ==
  /\ provider = "claude"
  /\ pc = "idle"
  /\ calls > 0
  /\ backendCalls = 1
  /\ Len(events) = 1
  /\ events[1].type = "Error"
  /\ claudeHistory # << >>
  /\ claudeHistory[Len(claudeHistory)] \in {UserContent(t) : t \in UserTexts}

\* C40: during a sendMessageStream call on the Claude provider the transcript
\* only grows by appends: across every step of the call, its first one and
\* its last one included, the transcript before is a prefix of the transcript
\* after, so the transcript at an earlier point of the call is a prefix of
\* the transcript at any later point.
C40_TranscriptOnlyGrows ==
  [][(provider = "claude" /\ ~(pc = "idle" /\ pc' = "idle")) =>
       /\ Len(claudeHistory) <= Len(claudeHistory')
       /\ SubSeq(claudeHistory', 1, Len(claudeHistory)) = claudeHistory]_vars

\* a call that has appended its user message, a model message and tool
\* results to a transcript that was not empty when it began
C40_Witness ==
  /\ provider = "claude"
  /\ pc = "loop"
  /\ backendCalls = 1
  /\ rounds = 1
  /\ Len(claudeHistory) >= 5
  /\ claudeHistory[Len(claudeHistory)].role = "user"
  /\ claudeHistory[Len(claudeHistory) - 1].role = "model"

====
